---- MODULE Spec2Model ----
(***************************************************************************)
(* Verification model of dstotijn/blippy: the pub/sub Broker's busy gate,  *)
(* the Runner and agent Loop (one autonomous turn with its LLM stream      *)
(* producer), the conversation service's Chat finalisation, the tool name  *)
(* encoding, nested runs through call_agent, the Broker's subscriptions,   *)
(* the Scheduler (its whole life, and one tick over several triggers), the *)
(* filesystem tools (one call at a time, and concurrent fs_create calls)   *)
(* and the tool Executor on drawn function calls.  Each subsystem has its  *)
(* own specification; the variables of the other subsystems stay at their  *)
(* idle values.                                                            *)
(***************************************************************************)
EXTENDS Integers, Sequences, FiniteSets, TLC

\* ---------------------------------------------------------------- bounds
\* goroutines calling the Broker concurrently
NumThreads == 3
\* conversation ids (topics) the Broker callers use
NumTopics == 2

\* events the stream producers of one turn may deliver, over all its rounds
MaxStreamEvents == 3
\* function calls the responses of one turn may carry, over all its rounds
MaxCalls == 2

\* tool.DefaultMaxDepth
DefaultMaxDepth == 5

\* concurrent Chat handlers, and the Chat calls they make in all
NumChats == 2
MaxChatCalls == 3

\* length of a notification channel's name
MaxNameLen == 3

\* call_agent invocations in one chain of nested runs
MaxAgentCalls == 7

\* `make(chan any, 256)` in Broker.Subscribe
MailboxCap == 256
\* Subscription values, and the Subscribe, Unsubscribe and Publish calls and
\* the receives made in all
NumSubs == 2
MaxSubCalls == 5

\* triggers in the table, the clock's last value (in tick intervals), the
\* longest delay of a one-shot trigger and the longest period of a cron
\* expression
NumTriggers == 2
\* of these, the ids that may hold a row when the process starts
NumStartTriggers == 1
MaxTime == 2
MaxDelay == 1
MaxCronPeriod == 1
\* store calls of the scheduler that fail
MaxStoreFailures == 1

\* components of a path argument of a filesystem tool, and the calls made
MaxPathLen == 2
MaxFsCalls == 2

\* bytes of a file read by fs_view
MaxViewLen == 3

\* ------------------------------------------------------------- variables
VARIABLES
  \* pubsub.Broker
  busy,        \* Broker.busy: set of conversation ids
  muWriter,    \* Broker.mu: the goroutines holding the write lock (at most one)
  muReaders,   \* Broker.mu: goroutines holding the read lock
  bpc,         \* per goroutine: position inside SetBusy/ClearBusy/IsBusy
  bconv,       \* per goroutine: the conversationID argument
  bfound,      \* per goroutine: the `ok` of the map lookup
  bret,        \* per goroutine: the value returned by the last call (FALSE while a call runs)
  holders,     \* per topic: goroutines whose SetBusy returned true since the last ClearBusy
  \* store
  conversations, \* conversations table: id -> [title, prev, updatedAt]
  messages,      \* messages table: set of [id, conv, role, items]
  nextId,        \* the ids uuid.NewString() has handed out so far
  \* Runner.Run / Loop.RunTurn (one autonomous turn)
  rpc,           \* position of the Run goroutine
  opts,          \* RunOpts: [depth, prompt, title, agentExists]
  conv,          \* the store.Conversation value Run passes to RunTurn: [id, title]
  published,     \* the events Broker.Publish was called with on the turn's topic, in order
  ctxCancelled,  \* the turn's context is done
  runErr,        \* the error the turn returns ("" is nil)
  round,         \* number of the current runLoop invocation
  currentText,   \* runLoop: currentText
  responseID,    \* runLoop: responseID
  priorItems,    \* runLoop: priorItems
  items,         \* runLoop / finishTurn: items
  title,         \* finishTurn: title
  \* tool.Executor.ProcessOutput
  toolCalls,     \* the function calls of the response being processed
  running,       \* indexes of the workers that have not delivered yet
  ch,            \* the buffered result channel
  collected,     \* number of results the collector has received
  outputInputs,  \* ProcessOutput: outputInputs, one slot per call
  inputs,        \* ProcessOutput: inputs, the list it returns
  results,       \* per call index: the output its worker produced ("" is none yet)
  returned,      \* per call index: what executeTool returned, (result, error message)
  completed,     \* the call indexes in the order their workers sent on the channel
  \* openrouter.Client.CreateResponseStream (the producer goroutine of the round)
  ppc,           \* position of the producer goroutine
  offer,         \* the event the producer is parked sending on `events`
  event,         \* runLoop: the event received from `events`
  eventsClosed,  \* close(events) has run
  errsBuf,       \* the buffered error on `errs` ("" is none)
  errsClosed,    \* close(errs) has run
  sent,          \* events the producers of the turn have delivered
  \* history
  setCount,      \* SetBusy calls of the run
  clearCount,    \* ClearBusy calls of the run
  errReported,   \* the producer of a round the loop was consuming sent a non-nil error
  cancelInStream, \* the context was cancelled while runLoop was in its select
  \* conversation.Service.Chat (per handler goroutine)
  cpc,           \* position inside Chat / finishChat
  cconv,         \* conv: the row GetConversation returned, [id, title]
  chasItems,     \* finishChat: len(items) > 0
  cresp,         \* finishChat: responseID
  ctitle,        \* finishChat: title
  cmsg,          \* finishChat: msgID
  ccalls,        \* Chat calls made so far
  \* tool names
  npc,           \* position of the name's journey: tool -> API -> tool
  toolName,      \* Tool.Name of the tool
  apiName,       \* the name sent to, and called back by, the API
  internalName,  \* the name the Executor looks the call up by
  \* nested runs through the call_agent tool
  astack,        \* the Run invocations in progress, outermost first: [depth, ctx, pc]
  aconvs,        \* the depth of each conversation CreateConversation has made
  aresult,       \* the last tool result a call_agent call yielded ("" is none)
  acalls,        \* call_agent invocations so far
  \* pubsub.Broker subscriptions
  subs,          \* Broker.subs: topic -> set of subscriptions
  sexists,       \* per subscription: Subscribe has created it
  stopic,        \* per subscription: conversationID
  mailbox,       \* per subscription: the events buffered in ch
  closes,        \* per subscription: executions of close(sub.ch)
  closing,       \* per subscription: Unsubscribe calls between Unlock and close
  ucalls,        \* per subscription: Unsubscribe calls made
  pubCount,      \* per topic: events published so far
  scalls,        \* Subscribe, Unsubscribe, Publish calls and receives since the start
  window,        \* per subscription: the events published to its topic while subscribed
  received,      \* per subscription: the events its consumer has received
  \* scheduler.Scheduler and its tables
  triggers,      \* triggers table: id -> [present, cron, enabled, nextRun]
  triggerRuns,   \* trigger_runs table: set of [id, trigger, status]
  nextRunID,     \* the run ids uuid.NewString() has handed out so far
  now,           \* time.Now(), in tick intervals
  tickPending,   \* ticker.C holds a tick
  mpc,           \* position of main.run around Start and Stop
  spc,           \* position of the Scheduler.run goroutine
  stopClosed,    \* s.stop is closed
  doneClosed,    \* s.done is closed
  sctxDone,      \* the ctx given to Start is cancelled
  due,           \* tick: the triggers of GetDueTriggers not yet executed
  runID,         \* executeTrigger: runID
  startedAt,     \* executeTrigger: now, the run's start
  srunErr,       \* executeTrigger: runErr # nil
  sfails,        \* the scheduler's store calls that failed so far
  \* filesystem tools
  fs,            \* the filesystem: existing path -> [kind, target]
  fsCalls,       \* handler calls so far
  fsTool,        \* the last call: the tool
  fsRoot,        \* the last call: the root's Path
  fsArg,         \* the last call: the path argument, [abs, comps]
  fsErr,         \* the last call: the error returned ("" is none)
  fsRead,        \* the last call: the entries it read
  fsWrote,       \* the last call: the entries it created or wrote
  \* fs_create handlers running as workers of one ProcessOutput
  fcpc,          \* per worker: position inside the fs_create handler
  fcPath,        \* per worker: resolved
  fcRet,         \* per worker: the text the handler returned ("" is none yet)
  fsText,        \* the text of each file the workers wrote: path -> text
  view,          \* an fs_view call past ReadFile: its data, view_range and outcome
  dispatch,      \* one agent's tools: its configuration, the tools offered, a call
  bk,            \* the Broker's mutex and the goroutines inside Publish and Unsubscribe
  tsvc           \* the triggers table as the trigger service, the tool and tick use it

brokerVars == <<busy, muWriter, muReaders, bpc, bconv, bfound, bret, holders>>
lockVars == <<muWriter, muReaders, bpc, bconv, bfound, bret, holders>>
storeVars == <<conversations, messages, nextId>>
turnVars == <<rpc, opts, conv, published, ctxCancelled, runErr, round, currentText,
              responseID, priorItems, items, title>>
execVars == <<toolCalls, running, ch, collected, outputInputs, inputs, results, returned,
              completed>>
streamVars == <<ppc, offer, event, eventsClosed, errsBuf, errsClosed, sent>>
histVars == <<setCount, clearCount, errReported, cancelInStream>>
runVars == <<turnVars, execVars, streamVars, histVars>>

chatVars == <<cpc, cconv, chasItems, cresp, ctitle, cmsg, ccalls>>
nameVars == <<npc, toolName, apiName, internalName>>
agentVars == <<astack, aconvs, aresult, acalls>>
\* the variables of the subsystems added after the Broker, the turn, Chat and
\* the tool names
subVars == <<subs, sexists, stopic, mailbox, closes, closing, ucalls, pubCount, scalls,
             window, received>>
schedVars == <<triggers, triggerRuns, nextRunID, now, tickPending, mpc, spc, stopClosed,
               doneClosed, sctxDone, due, runID, startedAt, srunErr, sfails>>
createVars == <<fcpc, fcPath, fcRet, fsText, view, dispatch, bk, tsvc>>
fsVars == <<fs, fsCalls, fsTool, fsRoot, fsArg, fsErr, fsRead, fsWrote, createVars>>
restVars == <<agentVars, subVars, schedVars, fsVars>>
\* the variables no step of a turn of Runner.Run touches
offTurnVars == <<chatVars, nameVars, restVars>>

vars == <<brokerVars, storeVars, runVars, chatVars, nameVars, restVars>>
nonBrokerVars == <<storeVars, runVars, chatVars, nameVars, restVars>>

Chats == 1..NumChats

Threads == 1..NumThreads
Topics == 1..NumTopics


\* =====================================================================
\* tool names: strings are sequences of one-character strings
\* =====================================================================

HasPrefix(s, prefix) ==
  Len(s) >= Len(prefix) /\ SubSeq(s, 1, Len(prefix)) = prefix

\* strings.Replace(s, old, new, n): the first n non-overlapping occurrences of
\* old, scanning from the left; n < 0 replaces them all
RECURSIVE Replace(_, _, _, _)
Replace(s, old, new, n) ==
  IF n = 0 \/ Len(s) < Len(old) THEN s
  ELSE IF HasPrefix(s, old)
    THEN new \o Replace(SubSeq(s, Len(old) + 1, Len(s)), old, new, n - 1)
    ELSE <<Head(s)>> \o Replace(Tail(s), old, new, n)

\* strings.ReplaceAll(s, old, new)
ReplaceAll(s, old, new) == Replace(s, old, new, -1)

NotifyColon == <<"n", "o", "t", "i", "f", "y", ":">>
NotifyUnder == <<"n", "o", "t", "i", "f", "y", "_", "_">>

\* EncodeToolName: strings.ReplaceAll(name, ":", "__")
EncodeToolName(name) == ReplaceAll(name, <<":">>, <<"_", "_">>)

\* DecodeToolName: strings.Replace(name, "notify__", "notify:", 1)
DecodeToolName(name) == Replace(name, NotifyUnder, NotifyColon, 1)

\* the names the tool constructors register
StaticToolNames == {
  <<"m", "e", "m", "o", "r", "y", "_", "v", "i", "e", "w">>,
  <<"m", "e", "m", "o", "r", "y", "_", "c", "r", "e", "a", "t", "e">>,
  <<"m", "e", "m", "o", "r", "y", "_", "e", "d", "i", "t">>,
  <<"m", "e", "m", "o", "r", "y", "_", "d", "e", "l", "e", "t", "e">>,
  <<"b", "a", "s", "h">>,
  <<"s", "c", "h", "e", "d", "u", "l", "e", "_", "a", "g", "e", "n", "t", "_", "r", "u", "n">>,
  <<"f", "e", "t", "c", "h", "_", "u", "r", "l">>,
  <<"c", "a", "l", "l", "_", "a", "g", "e", "n", "t">>,
  <<"f", "s", "_", "v", "i", "e", "w">>,
  <<"f", "s", "_", "s", "t", "r", "_", "r", "e", "p", "l", "a", "c", "e">>,
  <<"f", "s", "_", "c", "r", "e", "a", "t", "e">>,
  <<"f", "s", "_", "i", "n", "s", "e", "r", "t">>
}

\* NewNotificationTool: "notify:" + channel.Name
NotifyToolName(channelName) == NotifyColon \o channelName

\* =====================================================================
\* pubsub.Broker: SetBusy / ClearBusy / IsBusy
\* =====================================================================

\* sync.RWMutex: Lock() succeeds when nobody holds the mutex
CanLock == muWriter = {} /\ muReaders = {}
\* sync.RWMutex: RLock() succeeds when no writer holds the mutex
CanRLock == muWriter = {}

BrokerInit ==
  /\ busy = {}
  /\ muWriter = {}
  /\ muReaders = {}
  /\ bpc = [t \in Threads |-> "idle"]
  /\ bconv = [t \in Threads |-> 1]
  /\ bfound = [t \in Threads |-> FALSE]
  /\ bret = [t \in Threads |-> FALSE]
  /\ holders = [c \in Topics |-> {}]

\* b.mu.Lock() at the top of SetBusy
SetBusyLock(t, c) ==
  /\ bpc[t] = "idle"
  /\ CanLock
  /\ muWriter' = muWriter \cup {t}
  /\ bpc' = [bpc EXCEPT ![t] = "sb_lookup"]
  /\ bconv' = [bconv EXCEPT ![t] = c]
  /\ bret' = [bret EXCEPT ![t] = FALSE]
  /\ UNCHANGED <<busy, muReaders, bfound, holders>>
  /\ UNCHANGED nonBrokerVars

\* `_, ok := b.busy[conversationID]`
SetBusyLookup(t) ==
  /\ bpc[t] = "sb_lookup"
  /\ bfound' = [bfound EXCEPT ![t] = (bconv[t] \in busy)]
  /\ bpc' = [bpc EXCEPT ![t] = "sb_decide"]
  /\ UNCHANGED <<busy, muWriter, muReaders, bconv, bret, holders>>
  /\ UNCHANGED nonBrokerVars

\* a SetBusy that reports success whatever the lookup found
SetBusyResultAlways(found) == TRUE

\* the value SetBusy returns, given the lookup result
SetBusyResult(found) == ~found

\* `if ok { return false }; b.busy[id] = struct{}{}; return true`
SetBusyDecide(t) ==
  /\ bpc[t] = "sb_decide"
  /\ bret' = [bret EXCEPT ![t] = SetBusyResult(bfound[t])]
  /\ busy' = IF bfound[t] THEN busy ELSE busy \cup {bconv[t]}
  /\ holders' = IF SetBusyResult(bfound[t])
                  THEN [holders EXCEPT ![bconv[t]] = @ \cup {t}]
                  ELSE holders
  /\ bpc' = [bpc EXCEPT ![t] = "sb_unlock"]
  /\ bfound' = [bfound EXCEPT ![t] = FALSE]
  /\ UNCHANGED <<muWriter, muReaders, bconv>>
  /\ UNCHANGED nonBrokerVars

\* the deferred b.mu.Unlock() of SetBusy
SetBusyUnlock(t) ==
  /\ bpc[t] = "sb_unlock"
  /\ muWriter' = muWriter \ {t}
  /\ bpc' = [bpc EXCEPT ![t] = "idle"]
  /\ UNCHANGED <<busy, muReaders, bconv, bfound, bret, holders>>
  /\ UNCHANGED nonBrokerVars

\* b.mu.Lock() at the top of ClearBusy
ClearBusyLock(t, c) ==
  /\ bpc[t] = "idle"
  /\ CanLock
  /\ muWriter' = muWriter \cup {t}
  /\ bpc' = [bpc EXCEPT ![t] = "cb_delete"]
  /\ bconv' = [bconv EXCEPT ![t] = c]
  /\ bret' = [bret EXCEPT ![t] = FALSE]
  /\ UNCHANGED <<busy, muReaders, bfound, holders>>
  /\ UNCHANGED nonBrokerVars

\* `delete(b.busy, conversationID)`
ClearBusyDelete(t) ==
  /\ bpc[t] = "cb_delete"
  /\ busy' = busy \ {bconv[t]}
  /\ holders' = [holders EXCEPT ![bconv[t]] = {}]
  /\ bpc' = [bpc EXCEPT ![t] = "cb_unlock"]
  /\ UNCHANGED <<muWriter, muReaders, bconv, bfound, bret>>
  /\ UNCHANGED nonBrokerVars

\* b.mu.Unlock() at the end of ClearBusy
ClearBusyUnlock(t) ==
  /\ bpc[t] = "cb_unlock"
  /\ muWriter' = muWriter \ {t}
  /\ bpc' = [bpc EXCEPT ![t] = "idle"]
  /\ UNCHANGED <<busy, muReaders, bconv, bfound, bret, holders>>
  /\ UNCHANGED nonBrokerVars

\* b.mu.RLock() at the top of IsBusy
IsBusyRLock(t, c) ==
  /\ bpc[t] = "idle"
  /\ CanRLock
  /\ muReaders' = muReaders \cup {t}
  /\ bpc' = [bpc EXCEPT ![t] = "ib_lookup"]
  /\ bconv' = [bconv EXCEPT ![t] = c]
  /\ bret' = [bret EXCEPT ![t] = FALSE]
  /\ UNCHANGED <<busy, muWriter, bfound, holders>>
  /\ UNCHANGED nonBrokerVars

\* `_, ok := b.busy[conversationID]; return ok` with the deferred RUnlock
IsBusyReturn(t) ==
  /\ bpc[t] = "ib_lookup"
  /\ bret' = [bret EXCEPT ![t] = (bconv[t] \in busy)]
  /\ muReaders' = muReaders \ {t}
  /\ bpc' = [bpc EXCEPT ![t] = "idle"]
  /\ UNCHANGED <<busy, muWriter, bconv, bfound, holders>>
  /\ UNCHANGED nonBrokerVars

BrokerNext ==
  \/ \E t \in Threads, c \in Topics : SetBusyLock(t, c)
  \/ \E t \in Threads : SetBusyLookup(t)
  \/ \E t \in Threads : SetBusyDecide(t)
  \/ \E t \in Threads : SetBusyUnlock(t)
  \/ \E t \in Threads, c \in Topics : ClearBusyLock(t, c)
  \/ \E t \in Threads : ClearBusyDelete(t)
  \/ \E t \in Threads : ClearBusyUnlock(t)
  \/ \E t \in Threads, c \in Topics : IsBusyRLock(t, c)
  \/ \E t \in Threads : IsBusyReturn(t)

\* =====================================================================
\* store and events
\* =====================================================================

\* a function with an empty domain
EmptyMap == [x \in {} |-> x]

StoreInit ==
  /\ conversations = EmptyMap
  /\ messages = {}
  /\ nextId = 0

\* the outcomes of a store call made with the turn's context: database/sql
\* refuses a context that is already done, and may fail for its own reasons
StoreOutcomes == IF ctxCancelled THEN {FALSE} ELSE BOOLEAN

\* agentloop event variants, as one record shape
Event(type, text, msgId, role, itemsJSON, name) ==
  [type |-> type, text |-> text, msgId |-> msgId, role |-> role,
   itemsJSON |-> itemsJSON, name |-> name]
TurnStarted == Event("TurnStarted", "", 0, "", <<>>, <<>>)
TextDelta(content) == Event("TextDelta", content, 0, "", <<>>, <<>>)
ToolResult(name, result) == Event("ToolResult", result, 0, "", <<>>, name)
MessageDone(msgId, role, itemsJSON) == Event("MessageDone", "", msgId, role, itemsJSON, <<>>)
TurnDone(t) == Event("TurnDone", t, 0, "", <<>>, <<>>)
Error(message) == Event("Error", message, 0, "", <<>>, <<>>)

\* agentloop.StoredItem
TextItem(text) ==
  [type |-> "text", text |-> text, name |-> <<>>, result |-> "", callID |-> ""]
ToolExecutionItem(name, result, callID) ==
  [type |-> "tool_execution", text |-> "", name |-> name, result |-> result,
   callID |-> callID]

\* json.Marshal of one StoredItem: the type, and every other field that is not
\* empty (omitempty), as a set of key/value pairs
MarshalItem(it) ==
  {<<"type", it.type>>}
    \cup (IF it.text # "" THEN {<<"text", it.text>>} ELSE {})
    \cup (IF it.name # <<>> THEN {<<"name", it.name>>} ELSE {})
    \cup (IF it.result # "" THEN {<<"result", it.result>>} ELSE {})
    \cup (IF it.callID # "" THEN {<<"call_id", it.callID>>} ELSE {})

\* json.Marshal(items)
MarshalItems(its) == [i \in 1..Len(its) |-> MarshalItem(its[i])]

\* Broker.Publish on the turn's topic
Publish(e) == published' = Append(published, e)

\* store.Queries.CreateMessage
CreateMessage(id, convID, role, itemsJSON) ==
  messages' = messages \cup {[id |-> id, conv |-> convID, role |-> role, items |-> itemsJSON]}

\* =====================================================================
\* runner.Runner.Run
\* =====================================================================

Prompts == {"", "p"}
Titles == {"", "T0"}
Depths == {0, DefaultMaxDepth + 1}

NoEvent == [type |-> "none", delta |-> "", hasResponse |-> FALSE, id |-> "", calls |-> 0]

\* the state of the turn's variables before Run is called with one of `calls`
RunAt(pc, calls) ==
  /\ rpc = pc
  /\ opts \in calls
  /\ conv = [id |-> 0, title |-> ""]
  /\ published = <<>>
  /\ ctxCancelled = FALSE
  /\ runErr = ""
  /\ round = 0
  /\ currentText = ""
  /\ responseID = ""
  /\ priorItems = <<>>
  /\ items = <<>>
  /\ title = ""
  /\ toolCalls = <<>>
  /\ running = {}
  /\ ch = <<>>
  /\ collected = 0
  /\ outputInputs = <<>>
  /\ inputs = <<>>
  /\ results = <<>>
  /\ returned = <<>>
  /\ completed = <<>>
  /\ ppc = "none"
  /\ offer = NoEvent
  /\ event = NoEvent
  /\ eventsClosed = FALSE
  /\ errsBuf = ""
  /\ errsClosed = FALSE
  /\ sent = 0
  /\ setCount = 0
  /\ clearCount = 0
  /\ errReported = FALSE
  /\ cancelInStream = FALSE

RunOpts == [depth : Depths, prompt : Prompts, title : Titles, agentExists : BOOLEAN]
RunInit == RunAt("run_depth", RunOpts)
\* no run in this specification
RunIdle == RunAt("returned", {[depth |-> 0, prompt |-> "", title |-> "", agentExists |-> FALSE]})

\* `if opts.Depth > tool.DefaultMaxDepth { return nil, err }`
RunCheckDepth ==
  /\ rpc = "run_depth"
  /\ IF opts.depth > DefaultMaxDepth
       THEN rpc' = "returned" /\ runErr' = "max depth exceeded"
       ELSE rpc' = "run_getagent" /\ runErr' = runErr
  /\ UNCHANGED <<offTurnVars, brokerVars, storeVars, execVars, streamVars, histVars>>
  /\ UNCHANGED <<opts, conv, published, ctxCancelled, round, currentText, responseID,
                 priorItems, items, title>>

\* `agent, err := r.queries.GetAgent(ctx, opts.AgentID)`
RunGetAgent ==
  /\ rpc = "run_getagent"
  /\ \E ok \in StoreOutcomes :
       IF ok /\ opts.agentExists
         THEN rpc' = "run_createconv" /\ runErr' = runErr
         ELSE rpc' = "returned" /\ runErr' = "get agent"
  /\ UNCHANGED <<offTurnVars, brokerVars, storeVars, execVars, streamVars, histVars>>
  /\ UNCHANGED <<opts, conv, published, ctxCancelled, round, currentText, responseID,
                 priorItems, items, title>>

\* `conv, err := r.queries.CreateConversation(...)` with a fresh uuid
RunCreateConversation ==
  /\ rpc = "run_createconv"
  /\ \E ok \in StoreOutcomes :
       IF ok
         THEN /\ nextId' = nextId + 1
              /\ conversations' = conversations @@
                   ((nextId + 1) :> [title |-> opts.title, prev |-> "", updatedAt |-> 0])
              /\ conv' = [id |-> nextId + 1, title |-> opts.title]
              /\ rpc' = "run_setbusy"
              /\ runErr' = runErr
         ELSE /\ rpc' = "returned"
              /\ runErr' = "create conversation"
              /\ UNCHANGED <<nextId, conversations, conv>>
  /\ UNCHANGED <<offTurnVars, brokerVars, messages, execVars, streamVars, histVars>>
  /\ UNCHANGED <<opts, published, ctxCancelled, round, currentText, responseID,
                 priorItems, items, title>>

\* `r.broker.SetBusy(conv.ID)` (the whole call; its result is dropped)
RunSetBusy ==
  /\ rpc = "run_setbusy"
  /\ busy' = busy \cup {conv.id}
  /\ setCount' = setCount + 1
  /\ rpc' = "run_pubstart"
  /\ UNCHANGED <<offTurnVars, lockVars, storeVars, execVars, streamVars>>
  /\ UNCHANGED <<opts, conv, published, ctxCancelled, runErr, round, currentText,
                 responseID, priorItems, items, title, clearCount, errReported,
                 cancelInStream>>

\* `r.broker.Publish(conv.ID, agentloop.TurnStarted{})`
RunPublishTurnStarted ==
  /\ rpc = "run_pubstart"
  /\ Publish(TurnStarted)
  /\ rpc' = "save_create"
  /\ UNCHANGED <<offTurnVars, brokerVars, storeVars, execVars, streamVars, histVars>>
  /\ UNCHANGED <<opts, conv, ctxCancelled, runErr, round, currentText, responseID,
                 priorItems, items, title>>

\* Loop.SaveUserMessage: marshal the one text item and CreateMessage
SaveUserMessageCreate ==
  /\ rpc = "save_create"
  /\ \E ok \in StoreOutcomes :
       IF ok
         THEN /\ nextId' = nextId + 1
              /\ CreateMessage(nextId + 1, conv.id, "user",
                               MarshalItems(<<TextItem(opts.prompt)>>))
              /\ rpc' = "save_publish"
         ELSE /\ rpc' = "run_saveclear"
              /\ UNCHANGED <<nextId, messages>>
  /\ UNCHANGED <<offTurnVars, brokerVars, conversations, execVars, streamVars, histVars>>
  /\ UNCHANGED <<opts, conv, published, ctxCancelled, runErr, round, currentText,
                 responseID, priorItems, items, title>>

\* Loop.SaveUserMessage: publish MessageDone for the row just created
SaveUserMessagePublish ==
  /\ rpc = "save_publish"
  /\ Publish(MessageDone(nextId, "user", MarshalItems(<<TextItem(opts.prompt)>>)))
  /\ rpc' = "turn_prepare"
  /\ UNCHANGED <<offTurnVars, brokerVars, storeVars, execVars, streamVars, histVars>>
  /\ UNCHANGED <<opts, conv, ctxCancelled, runErr, round, currentText, responseID,
                 priorItems, items, title>>

\* Run, SaveUserMessage failed: `r.broker.ClearBusy(conv.ID); return nil, err`
RunSaveFailed ==
  /\ rpc = "run_saveclear"
  /\ busy' = busy \ {conv.id}
  /\ clearCount' = clearCount + 1
  /\ runErr' = "save user message"
  /\ rpc' = "returned"
  /\ UNCHANGED <<offTurnVars, lockVars, storeVars, execVars, streamVars>>
  /\ UNCHANGED <<opts, conv, published, ctxCancelled, round, currentText, responseID,
                 priorItems, items, title, setCount, errReported, cancelInStream>>

\* =====================================================================
\* agentloop.Loop.RunTurn / runLoop, with the stream producer and the Executor
\* =====================================================================

TurnFrame == UNCHANGED <<opts, conv, ctxCancelled>>

\* Loop.prepareTurn, whose only failure is GetToolsForAgent's
TurnPrepare ==
  /\ rpc = "turn_prepare"
  /\ \E ok \in BOOLEAN :
       IF ok THEN rpc' = "loop_open" /\ runErr' = runErr
             ELSE rpc' = "turn_puberr" /\ runErr' = "get tools"
  /\ TurnFrame
  /\ UNCHANGED <<offTurnVars, brokerVars, storeVars, execVars, streamVars, histVars>>
  /\ UNCHANGED <<published, round, currentText, responseID, priorItems, items, title>>

\* RunTurn, err != nil: `l.Broker.Publish(opts.Conv.ID, Error{Message: err.Error()})`
TurnPublishError ==
  /\ rpc = "turn_puberr"
  /\ Publish(Error(runErr))
  /\ rpc' = "turn_pubdone"
  /\ TurnFrame
  /\ UNCHANGED <<offTurnVars, brokerVars, storeVars, execVars, streamVars, histVars>>
  /\ UNCHANGED <<runErr, round, currentText, responseID, priorItems, items, title>>

\* a RunTurn whose error path returns after the Error event alone
TurnSkipDone ==
  /\ rpc = "turn_pubdone"
  /\ rpc' = "turn_defer"
  /\ TurnFrame
  /\ UNCHANGED <<offTurnVars, brokerVars, storeVars, execVars, streamVars, histVars>>
  /\ UNCHANGED <<published, runErr, round, currentText, responseID, priorItems, items,
                 title>>

\* RunTurn, err != nil: `l.Broker.Publish(opts.Conv.ID, TurnDone{})`
TurnPublishDone ==
  /\ rpc = "turn_pubdone"
  /\ Publish(TurnDone(""))
  /\ rpc' = "turn_defer"
  /\ TurnFrame
  /\ UNCHANGED <<offTurnVars, brokerVars, storeVars, execVars, streamVars, histVars>>
  /\ UNCHANGED <<runErr, round, currentText, responseID, priorItems, items, title>>

\* a RunTurn without the deferred ClearBusy
TurnReturnKeepBusy ==
  /\ rpc = "turn_defer"
  /\ rpc' = "returned"
  /\ TurnFrame
  /\ UNCHANGED <<offTurnVars, brokerVars, storeVars, execVars, streamVars, histVars>>
  /\ UNCHANGED <<published, runErr, round, currentText, responseID, priorItems, items,
                 title>>

\* RunTurn returns: the deferred `l.Broker.ClearBusy(opts.Conv.ID)`, then Run returns
TurnDeferClearBusy ==
  /\ rpc = "turn_defer"
  /\ busy' = busy \ {conv.id}
  /\ clearCount' = clearCount + 1
  /\ rpc' = "returned"
  /\ TurnFrame
  /\ UNCHANGED <<offTurnVars, lockVars, storeVars, execVars, streamVars>>
  /\ UNCHANGED <<published, runErr, round, currentText, responseID, priorItems, items,
                 title, setCount, errReported, cancelInStream>>

\* runLoop entry: `events, errs := l.ORClient.CreateResponseStream(ctx, orReq)`
\* makes the two channels and starts the producer goroutine
LoopOpenStream ==
  /\ rpc = "loop_open"
  /\ round' = round + 1
  /\ currentText' = ""
  /\ responseID' = ""
  /\ ppc' = "connect"
  /\ offer' = NoEvent
  /\ event' = NoEvent
  /\ eventsClosed' = FALSE
  /\ errsBuf' = ""
  /\ errsClosed' = FALSE
  /\ rpc' = "loop_select"
  /\ TurnFrame
  /\ UNCHANGED <<offTurnVars, brokerVars, storeVars, execVars, histVars>>
  /\ UNCHANGED <<published, runErr, priorItems, items, title, sent>>

\* ---- Go channel semantics between the loop and the round's producer.
\* The loop goroutine is either running towards its select ("loop_select"),
\* parked in it because no case was ready ("loop_parked"), or running the body
\* of the events case ("loop_handle").  An operation that makes a case ready
\* while the loop is parked wakes it with that case; a select evaluated with
\* several ready cases takes any of them.
Parked == rpc = "loop_parked"

\* the producer's steps are taken while the loop is in the round's select
\* loop; once the loop has left the round nothing reads its channels any more
Consuming == rpc \in {"loop_select", "loop_parked", "loop_handle"}

\* the loop's result when it leaves the select loop with error message msg
LoopFails(msg) ==
  /\ rpc' = "turn_puberr"
  /\ runErr' = msg

\* the producer's `errs <- err`: handed to a parked loop (`case err := <-errs`,
\* err != nil: return the stream error), else buffered
SendErr(msg) ==
  /\ errReported' = TRUE
  /\ IF Parked
       THEN LoopFails("stream error: " \o msg) /\ errsBuf' = errsBuf
       ELSE errsBuf' = msg /\ UNCHANGED <<rpc, runErr>>

ProducerFrame ==
  /\ UNCHANGED <<offTurnVars, brokerVars, storeVars, execVars>>
  /\ UNCHANGED <<opts, conv, published, ctxCancelled, round, currentText, responseID,
                 priorItems, items, title>>
  /\ UNCHANGED <<setCount, clearCount, cancelInStream>>

\* the turn's context is cancelled by its owner.  A loop parked in its select
\* wakes with `case <-ctx.Done()`; a producer parked in its send select wakes
\* with its `case <-ctx.Done(): return`.
CtxCancel ==
  /\ rpc # "returned"
  /\ ~ctxCancelled
  /\ ctxCancelled' = TRUE
  /\ cancelInStream' = Consuming
  /\ IF Parked THEN LoopFails("context canceled") ELSE UNCHANGED <<rpc, runErr>>
  /\ IF Consuming /\ ppc = "send"
       THEN ppc' = "close_errs" /\ offer' = NoEvent
       ELSE UNCHANGED <<ppc, offer>>
  /\ UNCHANGED <<offTurnVars, brokerVars, storeVars, execVars>>
  /\ UNCHANGED <<opts, conv, published, round, currentText, responseID, priorItems,
                 items, title, setCount, clearCount, errReported>>
  /\ UNCHANGED <<event, eventsClosed, errsBuf, errsClosed, sent>>

\* marshal / NewRequest / Do / status failure: `errs <- err; return`
ProdConnectFail ==
  /\ Consuming /\ ppc = "connect"
  /\ SendErr("do request")
  /\ ppc' = "close_errs"
  /\ ProducerFrame
  /\ UNCHANGED <<offer, event, eventsClosed, errsClosed, sent>>

\* the request succeeds with status 200 (never with a context already done)
ProdConnectOk ==
  /\ Consuming /\ ppc = "connect"
  /\ ~ctxCancelled
  /\ ppc' = "scan"
  /\ ProducerFrame
  /\ UNCHANGED <<rpc, runErr, offer, event, eventsClosed, errsBuf, errsClosed, sent,
                 errReported>>

\* the events a stream may carry: a text delta, a response with an id and some
\* function calls, a response without an id
StreamEvents ==
  [type : {"response.output_text.delta"}, delta : {"a"}, hasResponse : {FALSE},
   id : {""}, calls : {0}]
  \cup
  [type : {"response.completed"}, delta : {""}, hasResponse : {TRUE},
   id : {"r1"}, calls : 0..MaxCalls]
  \cup
  [type : {"response.completed"}, delta : {""}, hasResponse : {TRUE},
   id : {""}, calls : {0}]

\* the function calls the earlier rounds of the turn have run
CallsUsed ==
  Cardinality({i \in DOMAIN priorItems : priorItems[i].type = "tool_execution"})

\* scanner.Scan() yields a data line that unmarshals to e, then
\* `select { case events <- event: case <-ctx.Done(): return }`: the event is
\* handed to a parked loop; else the context, if done, ends the goroutine;
\* else the goroutine parks in the send
ProdScanEvent(e) ==
  /\ Consuming /\ ppc = "scan"
  /\ sent < MaxStreamEvents
  /\ CallsUsed + e.calls <= MaxCalls
  /\ sent' = sent + 1
  /\ IF Parked
       THEN /\ rpc' = "loop_handle"
            /\ event' = e
            /\ UNCHANGED <<ppc, offer>>
       ELSE IF ctxCancelled
         THEN /\ ppc' = "close_errs"
              /\ UNCHANGED <<rpc, event, offer>>
         ELSE /\ ppc' = "send"
              /\ offer' = e
              /\ UNCHANGED <<rpc, event>>
  /\ ProducerFrame
  /\ UNCHANGED <<runErr, eventsClosed, errsBuf, errsClosed, errReported>>

\* "data: [DONE]", or the body ends and scanner.Err() is nil
ProdScanDone ==
  /\ Consuming /\ ppc = "scan"
  /\ ppc' = "close_errs"
  /\ ProducerFrame
  /\ UNCHANGED <<rpc, runErr, offer, event, eventsClosed, errsBuf, errsClosed, sent,
                 errReported>>

\* the body read fails: `errs <- fmt.Errorf("scan: %w", err)`
ProdScanError ==
  /\ Consuming /\ ppc = "scan"
  /\ SendErr("scan")
  /\ ppc' = "close_errs"
  /\ ProducerFrame
  /\ UNCHANGED <<offer, event, eventsClosed, errsClosed, sent>>

\* deferred `close(errs)` (registered last, so it runs first); a parked loop
\* wakes with `case err := <-errs`, err == nil, and selects again
ProdCloseErrs ==
  /\ Consuming /\ ppc = "close_errs"
  /\ errsClosed' = TRUE
  /\ ppc' = "close_events"
  /\ rpc' = IF Parked THEN "loop_select" ELSE rpc
  /\ ProducerFrame
  /\ UNCHANGED <<runErr, offer, event, eventsClosed, errsBuf, sent, errReported>>

\* deferred `close(events)`; errs is closed by now, so the loop is not parked
ProdCloseEvents ==
  /\ Consuming /\ ppc = "close_events"
  /\ eventsClosed' = TRUE
  /\ ppc' = "exited"
  /\ ProducerFrame
  /\ UNCHANGED <<rpc, runErr, offer, event, errsBuf, errsClosed, sent, errReported>>

\* ---- runLoop's select

\* the select finds no case ready and parks the goroutine (a closed errs
\* channel is always ready: it yields nil and the loop selects again)
LoopPark ==
  /\ rpc = "loop_select"
  /\ ppc # "send" /\ ~eventsClosed /\ errsBuf = "" /\ ~errsClosed /\ ~ctxCancelled
  /\ rpc' = "loop_parked"
  /\ TurnFrame
  /\ UNCHANGED <<offTurnVars, brokerVars, storeVars, execVars, streamVars, histVars>>
  /\ UNCHANGED <<published, runErr, round, currentText, responseID, priorItems, items,
                 title>>

\* `case event, ok := <-events` with ok, from a producer parked in its send
LoopRecvEvent ==
  /\ rpc = "loop_select" /\ ppc = "send"
  /\ event' = offer
  /\ offer' = NoEvent
  /\ ppc' = "scan"
  /\ rpc' = "loop_handle"
  /\ TurnFrame
  /\ UNCHANGED <<offTurnVars, brokerVars, storeVars, execVars, histVars>>
  /\ UNCHANGED <<published, runErr, round, currentText, responseID, priorItems, items,
                 title>>
  /\ UNCHANGED <<eventsClosed, errsBuf, errsClosed, sent>>

\* a loop that appends the text item of every round, empty or not
ItemsWithAnyText(prior, text) == Append(prior, TextItem(text))

\* `items = append(items, priorItems...)` and the text item, if there is text
ItemsWithText(prior, text) ==
  IF text # "" THEN Append(prior, TextItem(text)) ELSE prior

\* the API-encoded name of the i-th function call of a response
CallName(i) ==
  IF i % 2 = 1 THEN EncodeToolName(NotifyToolName(<<"a">>))
               ELSE <<"f", "s", "_", "v", "i", "e", "w">>

\* the function_call items of a response with n calls
FunctionCalls(n) ==
  [i \in 1..n |-> [callID |-> "call" \o ToString(i), name |-> CallName(i)]]

\* openrouter.Input, of which ProcessOutput fills type, call_id, name, output
Input(type, callID, name, output) ==
  [type |-> type, callID |-> callID, name |-> name, output |-> output]
\* the zero Input of `make([]openrouter.Input, len(toolCalls))`
NoInput == Input("", "", <<>>, "")

\* a worker that has not returned from executeTool yet
NoReturn == <<>>

\* ProcessOutput: the function calls of the response, echoed back in order
CallEchoes(calls) ==
  [i \in 1..Len(calls) |-> Input("function_call", calls[i].callID, calls[i].name, "")]

\* the body of the events case: publish the delta, and when the event carries a
\* response start ProcessOutput on its function calls (none: select again)
LoopHandleEvent ==
  /\ rpc = "loop_handle"
  /\ LET e == event
         text == IF e.type = "response.output_text.delta" /\ e.delta # ""
                   THEN currentText \o e.delta ELSE currentText
     IN /\ currentText' = text
        /\ IF e.type = "response.output_text.delta" /\ e.delta # ""
             THEN Publish(TextDelta(e.delta))
             ELSE published' = published
        /\ responseID' = IF e.hasResponse THEN e.id ELSE responseID
        /\ IF e.hasResponse /\ e.calls > 0
             THEN /\ items' = ItemsWithText(priorItems, text)
                  /\ toolCalls' = FunctionCalls(e.calls)
                  /\ running' = 1..e.calls
                  /\ ch' = <<>>
                  /\ collected' = 0
                  /\ outputInputs' = [i \in 1..e.calls |-> NoInput]
                  /\ inputs' = CallEchoes(FunctionCalls(e.calls))
                  /\ results' = [i \in 1..e.calls |-> ""]
                  /\ returned' = [i \in 1..e.calls |-> NoReturn]
                  /\ completed' = <<>>
                  /\ rpc' = "loop_process"
                  /\ ppc' = "abandoned"
                  /\ offer' = NoEvent
             ELSE /\ rpc' = "loop_select"
                  /\ UNCHANGED <<items, execVars, ppc, offer>>
  /\ event' = NoEvent
  /\ TurnFrame
  /\ UNCHANGED <<offTurnVars, brokerVars, storeVars, histVars>>
  /\ UNCHANGED <<runErr, round, priorItems, title, eventsClosed, errsBuf, errsClosed, sent>>

\* `case event, ok := <-events` with !ok: the stream ended, finalize
LoopEventsClosed ==
  /\ rpc = "loop_select" /\ eventsClosed
  /\ items' = ItemsWithText(priorItems, currentText)
  /\ rpc' = "fin_start"
  /\ TurnFrame
  /\ UNCHANGED <<offTurnVars, brokerVars, storeVars, execVars, streamVars, histVars>>
  /\ UNCHANGED <<published, runErr, round, currentText, responseID, priorItems, title>>

\* `case err := <-errs` with a buffered err != nil
LoopRecvErr ==
  /\ rpc = "loop_select" /\ errsBuf # ""
  /\ LoopFails("stream error: " \o errsBuf)
  /\ errsBuf' = ""
  /\ TurnFrame
  /\ UNCHANGED <<offTurnVars, brokerVars, storeVars, execVars, histVars>>
  /\ UNCHANGED <<published, round, currentText, responseID, priorItems, items, title>>
  /\ UNCHANGED <<ppc, offer, event, eventsClosed, errsClosed, sent>>

\* `case <-ctx.Done(): return "", ctx.Err()`
LoopCtxDone ==
  /\ rpc = "loop_select" /\ ctxCancelled
  /\ LoopFails("context canceled")
  /\ TurnFrame
  /\ UNCHANGED <<offTurnVars, brokerVars, storeVars, execVars, streamVars, histVars>>
  /\ UNCHANGED <<published, round, currentText, responseID, priorItems, items, title>>

\* ---- Executor.ProcessOutput on the response's function calls

\* what a handler may return: (result, error message)
ToolReturns == {<<"ok", "">>, <<"", "boom">>}

\* a worker that passes an empty result on as it is
WorkerOutputRaw(ret) ==
  IF ret[2] # "" THEN "Error: " \o ret[2] ELSE ret[1]

\* the worker's coercion of the handler's return into the output text
WorkerOutput(ret) ==
  IF ret[2] # "" THEN "Error: " \o ret[2]
  ELSE IF ret[1] = "" THEN "(no output)"
  ELSE ret[1]

\* a channel that buffers a single result
ChanCapOne(calls) == 1

\* `ch := make(chan toolOutput, len(toolCalls))`
ChanCap(calls) == Len(calls)

\* a send on ch would block: the buffer is full (the collector is not
\* receiving while a result waits in the buffer)
SendBlocks == Len(ch) >= ChanCap(toolCalls)

\* a worker that calls onResult itself before it sends
WorkerOnResultCalled(i, ret) ==
  /\ items' = Append(items, ToolExecutionItem(DecodeToolName(toolCalls[i].name),
                                              WorkerOutput(ret), toolCalls[i].callID))
  /\ Publish(ToolResult(DecodeToolName(toolCalls[i].name), WorkerOutput(ret)))

\* the worker goroutine's body does not mention onResult: the turn's items and
\* the Broker are not touched by it
WorkerOnResult(i, ret) == UNCHANGED <<items, published>>

\* worker i: executeTool, coerce, `ch <- toolOutput{index: i, ...}`
WorkerDeliver(i, ret) ==
  /\ rpc = "loop_process" /\ i \in running
  /\ ~SendBlocks
  /\ ch' = Append(ch, [index |-> i, output |-> WorkerOutput(ret)])
  /\ running' = running \ {i}
  /\ results' = [results EXCEPT ![i] = WorkerOutput(ret)]
  /\ returned' = [returned EXCEPT ![i] = ret]
  /\ completed' = Append(completed, i)
  /\ WorkerOnResult(i, ret)
  /\ UNCHANGED <<rpc, opts, conv, ctxCancelled, runErr, round, currentText, responseID,
                 priorItems, title>>
  /\ UNCHANGED <<offTurnVars, brokerVars, storeVars, streamVars, histVars>>
  /\ UNCHANGED <<toolCalls, collected, outputInputs, inputs>>

\* a collector that stores each output in the next free slot
PlaceOutputByArrival(outs, r, arrived, in) == [outs EXCEPT ![arrived + 1] = in]

\* `outputInputs[r.index] = openrouter.Input{...}`; r is the `arrived`+1st result
PlaceOutput(outs, r, arrived, in) == [outs EXCEPT ![r.index] = in]

\* a receive that takes the value sent last
ChanRecvNewest(c) == [value |-> c[Len(c)], rest |-> SubSeq(c, 1, Len(c) - 1)]

\* `<-ch` on a buffered channel: the value sent first, and the buffer left
ChanRecv(c) == [value |-> Head(c), rest |-> Tail(c)]

\* the collector: `r := <-ch`, then onResult(r): the loop's callback appends the
\* tool_execution item and publishes ToolResult
CollectResult ==
  /\ rpc = "loop_process" /\ ch # <<>>
  /\ LET r == ChanRecv(ch).value
         call == toolCalls[r.index]
         decodedName == DecodeToolName(call.name)
     IN /\ items' = Append(items, ToolExecutionItem(decodedName, r.output, call.callID))
        /\ Publish(ToolResult(decodedName, r.output))
        /\ outputInputs' = PlaceOutput(outputInputs, r, collected,
                                       Input("function_call_output", call.callID, <<>>,
                                             r.output))
  /\ ch' = ChanRecv(ch).rest
  /\ collected' = collected + 1
  /\ TurnFrame
  /\ UNCHANGED <<offTurnVars, brokerVars, storeVars, streamVars, histVars>>
  /\ UNCHANGED <<rpc, runErr, round, currentText, responseID, priorItems, title>>
  /\ UNCHANGED <<toolCalls, running, inputs, results, returned, completed>>

\* a loop that goes back to the select on the same stream after the tools
AfterToolInputsSameStream == "loop_select"

\* `if len(toolInputs) > 0 { ...; return l.runLoop(...) }`: the loop leaves the
\* stream and enters runLoop again
AfterToolInputs == "loop_open"

\* `inputs = append(inputs, outputInputs...)`, return; `return l.runLoop(ctx, conv, orReq, userContent, items)`
ProcessOutputReturn ==
  /\ rpc = "loop_process" /\ collected = Len(toolCalls)
  /\ priorItems' = items
  /\ inputs' = inputs \o outputInputs
  /\ rpc' = AfterToolInputs
  /\ TurnFrame
  /\ UNCHANGED <<offTurnVars, brokerVars, storeVars, streamVars, histVars>>
  /\ UNCHANGED <<toolCalls, running, ch, collected, outputInputs, results, returned,
                 completed>>
  /\ UNCHANGED <<published, runErr, round, currentText, responseID, items, title>>

\* ---- Loop.finishTurn

\* a finishTurn without the early return: the empty item list is persisted
FinishEmptyPersisted ==
  /\ rpc = "fin_start" /\ items = <<>>
  /\ nextId' = nextId + 1
  /\ CreateMessage(nextId + 1, conv.id, "assistant", MarshalItems(items))
  /\ rpc' = "fin_publish"
  /\ TurnFrame
  /\ UNCHANGED <<offTurnVars, brokerVars, conversations, execVars, streamVars, histVars>>
  /\ UNCHANGED <<published, runErr, round, currentText, responseID, priorItems, items,
                 title>>

\* `if len(items) == 0 { Publish(TurnDone{}); return "", nil }`
FinishEmpty ==
  /\ rpc = "fin_start" /\ items = <<>>
  /\ Publish(TurnDone(""))
  /\ rpc' = "turn_defer"
  /\ TurnFrame
  /\ UNCHANGED <<offTurnVars, brokerVars, storeVars, execVars, streamVars, histVars>>
  /\ UNCHANGED <<runErr, round, currentText, responseID, priorItems, items, title>>

\* a finishTurn that goes on to publish when CreateMessage has failed
FinishCreateMessageUnchecked ==
  /\ rpc = "fin_start" /\ items # <<>>
  /\ \E ok \in StoreOutcomes :
       IF ok
         THEN /\ nextId' = nextId + 1
              /\ CreateMessage(nextId + 1, conv.id, "assistant", MarshalItems(items))
         ELSE UNCHANGED <<nextId, messages>>
  /\ rpc' = "fin_publish"
  /\ TurnFrame
  /\ UNCHANGED <<offTurnVars, brokerVars, conversations, execVars, streamVars, histVars>>
  /\ UNCHANGED <<published, runErr, round, currentText, responseID, priorItems, items,
                 title>>

\* marshal the items and CreateMessage with a fresh id
FinishCreateMessage ==
  /\ rpc = "fin_start" /\ items # <<>>
  /\ \E ok \in StoreOutcomes :
       IF ok
         THEN /\ nextId' = nextId + 1
              /\ CreateMessage(nextId + 1, conv.id, "assistant", MarshalItems(items))
              /\ rpc' = "fin_publish"
              /\ runErr' = runErr
         ELSE /\ rpc' = "turn_puberr"
              /\ runErr' = "create assistant message"
              /\ UNCHANGED <<nextId, messages>>
  /\ TurnFrame
  /\ UNCHANGED <<offTurnVars, brokerVars, conversations, execVars, streamVars, histVars>>
  /\ UNCHANGED <<published, round, currentText, responseID, priorItems, items, title>>

\* `l.Broker.Publish(conv.ID, MessageDone{...})` for the row just created
FinishPublishMessage ==
  /\ rpc = "fin_publish"
  /\ Publish(MessageDone(nextId, "assistant", MarshalItems(items)))
  /\ rpc' = "fin_title"
  /\ TurnFrame
  /\ UNCHANGED <<offTurnVars, brokerVars, storeVars, execVars, streamVars, histVars>>
  /\ UNCHANGED <<runErr, round, currentText, responseID, priorItems, items, title>>

\* what Client.GenerateTitle may return: (title, failed).  The title is the
\* trimmed text of the model's reply, which may be empty; a context that is
\* done fails the request.
TitleReturns ==
  IF ctxCancelled THEN {<<"", TRUE>>}
  ELSE {<<"", TRUE>>, <<"", FALSE>>, <<"T1", FALSE>>}

\* the title finishTurn (and finishChat) ends with, given the conversation
\* value it was passed, whether generation is attempted and what it returned
GeneratedTitle(convTitle, attempt, ret) ==
  IF convTitle = "" /\ attempt /\ ~ret[2] THEN ret[1] ELSE ""

\* `if conv.Title == "" { ... if userContent != "" { GenerateTitle } }`
FinishTitle ==
  /\ rpc = "fin_title"
  /\ \E ret \in TitleReturns : title' = GeneratedTitle(conv.title, opts.prompt # "", ret)
  /\ rpc' = "fin_update"
  /\ TurnFrame
  /\ UNCHANGED <<offTurnVars, brokerVars, storeVars, execVars, streamVars, histVars>>
  /\ UNCHANGED <<published, runErr, round, currentText, responseID, priorItems, items>>

\* the title UpdateConversation is given: the generated one, else the title of
\* the conversation value the turn started with
NewTitle(convTitle, generated) == IF generated # "" THEN generated ELSE convTitle

\* UPDATE conversations SET title = ?, previous_response_id = ?, updated_at = ?
\* WHERE id = ?; updated_at counts the row's updates since its creation
UpdateConversation(id, newTitle, respID) ==
  conversations' = [conversations EXCEPT ![id] =
                      [title |-> newTitle, prev |-> respID, updatedAt |-> @.updatedAt + 1]]

\* `if responseID != "" || title != "" { UpdateConversation }`
FinishUpdate ==
  /\ rpc = "fin_update"
  /\ IF responseID # "" \/ title # ""
       THEN \E ok \in StoreOutcomes :
              IF ok
                THEN /\ UpdateConversation(conv.id, NewTitle(conv.title, title), responseID)
                     /\ rpc' = "fin_done"
                     /\ runErr' = runErr
                ELSE /\ rpc' = "turn_puberr"
                     /\ runErr' = "update conversation"
                     /\ UNCHANGED conversations
       ELSE /\ rpc' = "fin_done"
            /\ UNCHANGED <<runErr, conversations>>
  /\ TurnFrame
  /\ UNCHANGED <<offTurnVars, brokerVars, messages, nextId, execVars, streamVars, histVars>>
  /\ UNCHANGED <<published, round, currentText, responseID, priorItems, items, title>>

\* `l.Broker.Publish(conv.ID, TurnDone{Title: title})`, return
FinishPublishDone ==
  /\ rpc = "fin_done"
  /\ Publish(TurnDone(title))
  /\ rpc' = "turn_defer"
  /\ TurnFrame
  /\ UNCHANGED <<offTurnVars, brokerVars, storeVars, execVars, streamVars, histVars>>
  /\ UNCHANGED <<runErr, round, currentText, responseID, priorItems, items, title>>

RunNext ==
  \/ CtxCancel
  \/ RunCheckDepth
  \/ RunGetAgent
  \/ RunCreateConversation
  \/ RunSetBusy
  \/ RunPublishTurnStarted
  \/ SaveUserMessageCreate
  \/ SaveUserMessagePublish
  \/ RunSaveFailed
  \/ TurnPrepare
  \/ TurnPublishError
  \/ TurnPublishDone
  \/ TurnDeferClearBusy
  \/ LoopOpenStream
  \/ ProdConnectFail
  \/ ProdConnectOk
  \/ \E e \in StreamEvents : ProdScanEvent(e)
  \/ ProdScanDone
  \/ ProdScanError
  \/ ProdCloseErrs
  \/ ProdCloseEvents
  \/ LoopPark
  \/ LoopRecvEvent
  \/ LoopHandleEvent
  \/ LoopEventsClosed
  \/ LoopRecvErr
  \/ LoopCtxDone
  \/ \E i \in 1..MaxCalls, ret \in ToolReturns : WorkerDeliver(i, ret)
  \/ CollectResult
  \/ ProcessOutputReturn
  \/ FinishEmpty
  \/ FinishCreateMessage
  \/ FinishPublishMessage
  \/ FinishTitle
  \/ FinishUpdate
  \/ FinishPublishDone

\* =====================================================================
\* conversation.Service.Chat / finishChat: handlers sharing one conversation
\* =====================================================================

\* the conversation the Chat requests name
ChatConvID == 1

\* the store when the handlers start: the conversation exists, untitled or
\* titled at creation
ChatStoreInit ==
  /\ conversations \in {(ChatConvID :> [title |-> t, prev |-> "", updatedAt |-> 0]) : t \in Titles}
  /\ messages = {}
  /\ nextId = ChatConvID

\* no handler is inside Chat, ccalls calls have been made
ChatAt(calls) ==
  /\ cpc = [c \in Chats |-> "idle"]
  /\ cconv = [c \in Chats |-> [id |-> 0, title |-> ""]]
  /\ chasItems = [c \in Chats |-> FALSE]
  /\ cresp = [c \in Chats |-> ""]
  /\ ctitle = [c \in Chats |-> ""]
  /\ cmsg = [c \in Chats |-> 0]
  /\ ccalls = calls

ChatInit == ChatAt(0)
\* no Chat in this specification
ChatIdle == ChatAt(MaxChatCalls)

ChatFrame == UNCHANGED <<brokerVars, runVars, nameVars, restVars>>

\* the handler returns: its locals go out of scope
ChatReturn(c) ==
  /\ cpc' = [cpc EXCEPT ![c] = "idle"]
  /\ cconv' = [cconv EXCEPT ![c] = [id |-> 0, title |-> ""]]
  /\ chasItems' = [chasItems EXCEPT ![c] = FALSE]
  /\ cresp' = [cresp EXCEPT ![c] = ""]
  /\ ctitle' = [ctitle EXCEPT ![c] = ""]
  /\ cmsg' = [cmsg EXCEPT ![c] = 0]

\* `conv, err := s.queries.GetConversation(ctx, req.Msg.ConversationId)`
ChatGetConversation(c) ==
  /\ cpc[c] = "idle"
  /\ ccalls < MaxChatCalls
  /\ ccalls' = ccalls + 1
  /\ \E ok \in BOOLEAN :
       IF ok
         THEN /\ cconv' = [cconv EXCEPT ![c] = [id |-> ChatConvID,
                                               title |-> conversations[ChatConvID].title]]
              /\ cpc' = [cpc EXCEPT ![c] = "save_user"]
         ELSE UNCHANGED <<cpc, cconv>>
  /\ UNCHANGED <<storeVars, chasItems, cresp, ctitle, cmsg>>
  /\ ChatFrame

\* GetAgent, GetMessagesByConversation, then CreateMessage for the user message
ChatSaveUserMessage(c) ==
  /\ cpc[c] = "save_user"
  /\ \E ok \in BOOLEAN :
       IF ok
         THEN /\ nextId' = nextId + 1
              /\ CreateMessage(nextId + 1, cconv[c].id, "user",
                               MarshalItems(<<TextItem("q")>>))
              /\ cpc' = [cpc EXCEPT ![c] = "stream"]
              /\ UNCHANGED <<cconv, chasItems, cresp, ctitle, cmsg>>
         ELSE /\ ChatReturn(c)
              /\ UNCHANGED <<nextId, messages>>
  /\ UNCHANGED <<conversations, ccalls>>
  /\ ChatFrame

\* GetToolsForAgent and streamWithToolExecution up to its call of finishChat:
\* it returns an error (tools, stream error, cancellation, a failed Send), or
\* the stream ends with some items, or none, and the last response id, or none
ChatStream(c) ==
  /\ cpc[c] = "stream"
  /\ \/ ChatReturn(c)
     \/ \E hasItems \in BOOLEAN, id \in {"", "r1"} :
          /\ chasItems' = [chasItems EXCEPT ![c] = hasItems]
          /\ cresp' = [cresp EXCEPT ![c] = id]
          /\ cpc' = [cpc EXCEPT ![c] = "fin_start"]
          /\ UNCHANGED <<cconv, ctitle, cmsg>>
  /\ UNCHANGED <<storeVars, ccalls>>
  /\ ChatFrame

\* finishChat: `if len(items) == 0 { return nil }`, else CreateMessage for the
\* assistant message
ChatFinishCreate(c) ==
  /\ cpc[c] = "fin_start"
  /\ IF ~chasItems[c]
       THEN ChatReturn(c) /\ UNCHANGED <<nextId, messages>>
       ELSE \E ok \in BOOLEAN :
              IF ok
                THEN /\ nextId' = nextId + 1
                     /\ CreateMessage(nextId + 1, cconv[c].id, "assistant",
                                      MarshalItems(<<TextItem("a")>>))
                     /\ cmsg' = [cmsg EXCEPT ![c] = nextId + 1]
                     /\ cpc' = [cpc EXCEPT ![c] = "fin_title"]
                     /\ UNCHANGED <<cconv, chasItems, cresp, ctitle>>
                ELSE /\ ChatReturn(c)
                     /\ UNCHANGED <<nextId, messages>>
  /\ UNCHANGED <<conversations, ccalls>>
  /\ ChatFrame

\* finishChat: `if conv.Title == "" { generated, err := GenerateTitle(...) }`
ChatFinishTitle(c) ==
  /\ cpc[c] = "fin_title"
  /\ \E ret \in TitleReturns :
       ctitle' = [ctitle EXCEPT ![c] = GeneratedTitle(cconv[c].title, TRUE, ret)]
  /\ cpc' = [cpc EXCEPT ![c] = "fin_update"]
  /\ UNCHANGED <<storeVars, cconv, chasItems, cresp, cmsg, ccalls>>
  /\ ChatFrame

\* finishChat: `if responseID != "" || title != "" { UpdateConversation }`
ChatFinishUpdate(c) ==
  /\ cpc[c] = "fin_update"
  /\ IF cresp[c] # "" \/ ctitle[c] # ""
       THEN \E ok \in BOOLEAN :
              IF ok
                THEN /\ UpdateConversation(cconv[c].id,
                                           NewTitle(cconv[c].title, ctitle[c]), cresp[c])
                     /\ cpc' = [cpc EXCEPT ![c] = "fin_send"]
                     /\ UNCHANGED <<cconv, chasItems, cresp, ctitle, cmsg>>
                ELSE /\ ChatReturn(c)
                     /\ UNCHANGED conversations
       ELSE /\ cpc' = [cpc EXCEPT ![c] = "fin_send"]
            /\ UNCHANGED <<conversations, cconv, chasItems, cresp, ctitle, cmsg>>
  /\ UNCHANGED <<messages, nextId, ccalls>>
  /\ ChatFrame

\* finishChat: `return stream.Send(ChatDone{...})`
ChatFinishSend(c) ==
  /\ cpc[c] = "fin_send"
  /\ ChatReturn(c)
  /\ UNCHANGED <<storeVars, ccalls>>
  /\ ChatFrame

ChatNext ==
  \/ \E c \in Chats : ChatGetConversation(c)
  \/ \E c \in Chats : ChatSaveUserMessage(c)
  \/ \E c \in Chats : ChatStream(c)
  \/ \E c \in Chats : ChatFinishCreate(c)
  \/ \E c \in Chats : ChatFinishTitle(c)
  \/ \E c \in Chats : ChatFinishUpdate(c)
  \/ \E c \in Chats : ChatFinishSend(c)

\* =====================================================================
\* a tool's name on its way to the API and back
\* =====================================================================

NameChars == {"a", ":", "_"}
\* notification channel names: the service stores the name it is given
ChannelNames == UNION {[1..n -> NameChars] : n \in 0..MaxNameLen}
\* the names of the tools an Executor can hold
RegisteredToolNames == StaticToolNames \cup {NotifyToolName(x) : x \in ChannelNames}

NamesAt(pc, names) ==
  /\ npc = pc
  /\ toolName \in names
  /\ apiName = <<>>
  /\ internalName = <<>>

\* a tool is registered under its name
NamesInit == NamesAt("tool", RegisteredToolNames)
\* no tool in this specification
NamesIdle == NamesAt("idle", {<<>>})

\* the tool definition sent to the API: `"name": EncodeToolName(t.Name)`
ToolsEncode ==
  /\ npc = "tool"
  /\ apiName' = EncodeToolName(toolName)
  /\ npc' = "api"
  /\ UNCHANGED <<toolName, internalName>>
  /\ UNCHANGED <<brokerVars, storeVars, runVars, chatVars, restVars>>

\* the model calls the tool by the name it was given and ProcessOutput looks
\* it up: `internalName := DecodeToolName(call.Name)`
CallDecode ==
  /\ npc = "api"
  /\ internalName' = DecodeToolName(apiName)
  /\ npc' = "executor"
  /\ UNCHANGED <<toolName, apiName>>
  /\ UNCHANGED <<brokerVars, storeVars, runVars, chatVars, restVars>>

NamesNext == ToolsEncode \/ CallDecode

\* =====================================================================
\* nested runs: the call_agent tool, Adapter.RunAgent and Runner.Run's depth
\* =====================================================================

\* a context's depth value: {} when WithDepth was never applied, else {depth}
NoDepth == {}
WithDepth(ctx, depth) == {depth}
\* GetDepth: the context's depth, defaulting to 0
GetDepth(ctx) == IF ctx = NoDepth THEN 0 ELSE CHOOSE d \in ctx : TRUE

\* a Run invocation: its opts.Depth, the context it works with, its position
RunFrame(depth, ctx, pc) == [depth |-> depth, ctx |-> ctx, pc |-> pc]
TopRun == astack[Len(astack)]
AgentOuter == SubSeq(astack, 1, Len(astack) - 1)
AgentAtTop(pc) == astack # <<>> /\ TopRun.pc = pc
ReplaceTop(f) == Append(AgentOuter, f)

\* the depths Run may be called with from outside any turn
AgentDepths == 0..(DefaultMaxDepth + 1)

\* Run is called with some depth and a context without a depth value
AgentInit ==
  /\ astack \in {<<RunFrame(d, NoDepth, "run_depth")>> : d \in AgentDepths}
  /\ aconvs = <<>>
  /\ aresult = ""
  /\ acalls = 0
\* no run in this specification
AgentIdle ==
  /\ astack = <<>>
  /\ aconvs = <<>>
  /\ aresult = ""
  /\ acalls = 0

AgentFrame ==
  UNCHANGED <<brokerVars, storeVars, runVars, chatVars, nameVars, subVars, schedVars,
              fsVars>>

\* the innermost Run returns (response, error message): Adapter.RunAgent hands
\* it to the call_agent handler waiting in the caller's turn, which yields
\* the response, or "Error calling agent: ..." for an error
AgentRunReturns(response, err) ==
  /\ astack' = IF Len(astack) = 1 THEN <<>>
               ELSE Append(SubSeq(astack, 1, Len(astack) - 2),
                           [astack[Len(astack) - 1] EXCEPT !.pc = "turn"])
  /\ aresult' = IF Len(astack) = 1 THEN aresult
                ELSE IF err # "" THEN "Error calling agent: " \o err
                ELSE response

\* Run: `if opts.Depth > tool.DefaultMaxDepth { return nil, err }`
AgentRunCheckDepth ==
  /\ AgentAtTop("run_depth")
  /\ IF TopRun.depth > DefaultMaxDepth
       THEN AgentRunReturns("", "max depth exceeded")
       ELSE /\ astack' = ReplaceTop([TopRun EXCEPT !.pc = "run_create"])
            /\ UNCHANGED aresult
  /\ UNCHANGED <<aconvs, acalls>>
  /\ AgentFrame

\* Run: GetAgent and CreateConversation; RunTurn: `if opts.Depth > 0 { ctx =
\* tool.WithDepth(ctx, opts.Depth) }`
AgentRunCreate ==
  /\ AgentAtTop("run_create")
  /\ \E ok \in BOOLEAN :
       IF ok
         THEN /\ aconvs' = Append(aconvs, TopRun.depth)
              /\ astack' = ReplaceTop(
                   RunFrame(TopRun.depth,
                            IF TopRun.depth > 0 THEN WithDepth(TopRun.ctx, TopRun.depth)
                                                ELSE TopRun.ctx,
                            "turn"))
              /\ UNCHANGED aresult
         ELSE /\ AgentRunReturns("", "create conversation")
              /\ UNCHANGED aconvs
  /\ UNCHANGED acalls
  /\ AgentFrame

\* a call_agent handler that never refuses
DepthUnlimited(newDepth) == FALSE

\* call_agent handler: `newDepth > DefaultMaxDepth`
DepthExceeded(newDepth) == newDepth > DefaultMaxDepth

\* the turn's model calls call_agent: the handler takes the depth from its
\* context, refuses (the worker turns the error into the tool result), or
\* calls caller.RunAgent with newDepth
AgentCallTool ==
  /\ AgentAtTop("turn")
  /\ acalls < MaxAgentCalls
  /\ acalls' = acalls + 1
  /\ LET newDepth == GetDepth(TopRun.ctx) + 1
     IN IF DepthExceeded(newDepth)
          THEN /\ aresult' = "Error: max agent depth exceeded"
               /\ UNCHANGED astack
          ELSE /\ astack' = Append(ReplaceTop([TopRun EXCEPT !.pc = "calling"]),
                                   RunFrame(newDepth, TopRun.ctx, "run_depth"))
               /\ aresult' = ""
  /\ UNCHANGED aconvs
  /\ AgentFrame

\* the turn ends: Run returns its response, or the turn's error
AgentTurnEnds ==
  /\ AgentAtTop("turn")
  /\ \E ret \in {<<"ok", "">>, <<"", "run turn">>} : AgentRunReturns(ret[1], ret[2])
  /\ UNCHANGED <<aconvs, acalls>>
  /\ AgentFrame

AgentNext ==
  \/ AgentRunCheckDepth
  \/ AgentRunCreate
  \/ AgentCallTool
  \/ AgentTurnEnds

\* =====================================================================
\* pubsub.Broker: Subscribe, Unsubscribe, Publish and the consumers
\* =====================================================================

Subs == 1..NumSubs

\* the n-th event published to a topic
Ev(topic, n) == [topic |-> topic, seq |-> n]

\* events a subscription that exists at the start may hold already
Backlogs == {0, MailboxCap}

\* New(), then subscription 1 subscribed to topic 1 and `backlog` events were
\* published to that topic and none received
SubsAt(backlogs) ==
  /\ \E k \in backlogs :
       /\ mailbox = [s \in Subs |-> IF s = 1 THEN [i \in 1..k |-> Ev(1, i)] ELSE <<>>]
       /\ pubCount = [t \in Topics |-> IF t = 1 THEN k ELSE 0]
  /\ window = mailbox
  /\ subs = [t \in Topics |-> IF t = 1 THEN {1} ELSE {}]
  /\ sexists = [s \in Subs |-> s = 1]
  /\ stopic = [s \in Subs |-> IF s = 1 THEN 1 ELSE 0]
  /\ closes = [s \in Subs |-> 0]
  /\ closing = [s \in Subs |-> 0]
  /\ ucalls = [s \in Subs |-> 0]
  /\ scalls = 0
  /\ received = [s \in Subs |-> <<>>]

SubsInit == SubsAt(Backlogs)
\* no subscription activity in this specification
SubsIdle == SubsAt({0})

\* a close of a closed channel has panicked
Panicked == \E s \in Subs : closes[s] > 1

\* one more call, by a process that has not panicked
SubsFrame ==
  /\ ~Panicked
  /\ scalls < MaxSubCalls
  /\ scalls' = scalls + 1
  /\ UNCHANGED <<brokerVars, storeVars, runVars, chatVars, nameVars, agentVars, schedVars,
                 fsVars>>

\* Subscribe(conversationID): a new Subscription with an empty channel, added
\* to the topic's set under the write lock
BrokerSubscribe(s, t) ==
  /\ ~sexists[s]
  /\ sexists' = [sexists EXCEPT ![s] = TRUE]
  /\ stopic' = [stopic EXCEPT ![s] = t]
  /\ subs' = [subs EXCEPT ![t] = @ \cup {s}]
  /\ UNCHANGED <<mailbox, closes, closing, ucalls, pubCount, window, received>>
  /\ SubsFrame

\* Unsubscribe(sub), the part under the write lock: delete sub from its topic
BrokerUnsubscribeRemove(s) ==
  /\ sexists[s]
  /\ ucalls' = [ucalls EXCEPT ![s] = @ + 1]
  /\ subs' = [subs EXCEPT ![stopic[s]] = @ \ {s}]
  /\ closing' = [closing EXCEPT ![s] = @ + 1]
  /\ UNCHANGED <<sexists, stopic, mailbox, closes, pubCount, window, received>>
  /\ SubsFrame

\* Unsubscribe(sub), after the Unlock: `close(sub.ch)`
BrokerUnsubscribeClose(s) ==
  /\ closing[s] > 0
  /\ closing' = [closing EXCEPT ![s] = @ - 1]
  /\ closes' = [closes EXCEPT ![s] = @ + 1]
  /\ UNCHANGED <<subs, sexists, stopic, mailbox, ucalls, pubCount, scalls, window,
                 received>>
  /\ ~Panicked
  /\ UNCHANGED <<brokerVars, storeVars, runVars, chatVars, nameVars, agentVars, schedVars,
                 fsVars>>

\* a channel without a capacity check
HasRoomAlways(box) == TRUE

\* `case sub.ch <- event:` is ready when the buffer is not full
HasRoom(box) == Len(box) < MailboxCap

\* a channel that hands out its newest element first
EnqueueFront(box, e) == <<e>> \o box

\* a buffered channel send
Enqueue(box, e) == Append(box, e)

\* `select { case sub.ch <- event: default: }`
Deliver(box, e) == IF HasRoom(box) THEN Enqueue(box, e) ELSE box

\* sub is subscribed: created, and no Unsubscribe has removed it
Subscribed(s) == sexists[s] /\ ucalls[s] = 0

\* Publish(conversationID, event): under the read lock, offer the event to
\* every subscription of the topic
BrokerPublish(t) ==
  /\ pubCount' = [pubCount EXCEPT ![t] = @ + 1]
  /\ LET e == Ev(t, pubCount[t] + 1)
     IN /\ mailbox' = [s \in Subs |-> IF s \in subs[t] THEN Deliver(mailbox[s], e)
                                                         ELSE mailbox[s]]
        /\ window' = [s \in Subs |-> IF Subscribed(s) /\ stopic[s] = t
                                       THEN Append(window[s], e) ELSE window[s]]
  /\ UNCHANGED <<subs, sexists, stopic, closes, closing, ucalls, received>>
  /\ SubsFrame

\* the consumer: `ev, ok := <-sub.C` with a buffered event
SubReceive(s) ==
  /\ mailbox[s] # <<>>
  /\ received' = [received EXCEPT ![s] = Append(@, Head(mailbox[s]))]
  /\ mailbox' = [mailbox EXCEPT ![s] = Tail(@)]
  /\ UNCHANGED <<subs, sexists, stopic, closes, closing, ucalls, pubCount, window>>
  /\ SubsFrame

SubsNext ==
  \/ \E s \in Subs, t \in Topics : BrokerSubscribe(s, t)
  \/ \E s \in Subs : BrokerUnsubscribeRemove(s)
  \/ \E s \in Subs : BrokerUnsubscribeClose(s)
  \/ \E t \in Topics : BrokerPublish(t)
  \/ \E s \in Subs : SubReceive(s)

\* ---- Publish and Unsubscribe, statement by statement, under b.mu

\* the goroutines calling Publish at once
NumPublishers == 2
Publishers == 1..NumPublishers

\* a goroutine outside Publish; one outside Unsubscribe
IdlePublisher == [pc |-> "idle", topic |-> 0, todo |-> {}]

\* nobody is inside the Broker
NoBk ==
  [writer |-> 0, readers |-> {}, pub |-> [p \in Publishers |-> IdlePublisher],
   uns |-> [s \in Subs |-> "idle"], sentClosed |-> FALSE]

\* every subscription exists, each on some topic, with an empty channel
PubInit ==
  /\ stopic \in [Subs -> Topics]
  /\ subs = [t \in Topics |-> {s \in Subs : stopic[s] = t}]
  /\ sexists = [s \in Subs |-> TRUE]
  /\ mailbox = [s \in Subs |-> <<>>]
  /\ pubCount = [t \in Topics |-> 0]
  /\ window = mailbox
  /\ closes = [s \in Subs |-> 0]
  /\ closing = [s \in Subs |-> 0]
  /\ ucalls = [s \in Subs |-> 0]
  /\ scalls = 0
  /\ received = [s \in Subs |-> <<>>]

PubFrame ==
  /\ UNCHANGED <<brokerVars, storeVars, runVars, chatVars, nameVars, agentVars, schedVars>>
  /\ UNCHANGED <<fs, fsCalls, fsTool, fsRoot, fsArg, fsErr, fsRead, fsWrote, fcpc, fcPath,
                 fcRet, fsText, view, dispatch, tsvc>>
  /\ UNCHANGED <<sexists, stopic, closing, ucalls, pubCount, scalls, window, received>>

\* a write lock that does not wait for the readers
WriteLockFreeOfWriters == bk.writer = 0

\* `b.mu.Lock()` can proceed: no writer and no reader holds the mutex
WriteLockFree == bk.writer = 0 /\ bk.readers = {}

\* Publish: `b.mu.RLock()`, and the range statement takes up the topic's set
PublishRLock(p, t) ==
  /\ bk.pub[p].pc = "idle"
  /\ bk.writer = 0
  /\ bk' = [bk EXCEPT !.readers = @ \cup {p},
                      !.pub[p] = [pc |-> "range", topic |-> t, todo |-> subs[t]]]
  /\ UNCHANGED <<subs, mailbox, closes>>
  /\ PubFrame

\* Publish: one iteration, `select { case sub.ch <- event: default: }`; a send
\* on a closed channel panics
PublishSend(p, s) ==
  /\ bk.pub[p].pc = "range"
  /\ s \in bk.pub[p].todo
  /\ bk' = [bk EXCEPT !.pub[p].todo = @ \ {s},
                      !.sentClosed = @ \/ closes[s] > 0]
  /\ mailbox' = IF closes[s] > 0 THEN mailbox
                ELSE [mailbox EXCEPT ![s] = Deliver(@, Ev(bk.pub[p].topic, p))]
  /\ UNCHANGED <<subs, closes>>
  /\ PubFrame

\* Publish: the range is over, `b.mu.RUnlock()`
PublishRUnlock(p) ==
  /\ bk.pub[p].pc = "range"
  /\ bk.pub[p].todo = {}
  /\ bk' = [bk EXCEPT !.readers = @ \ {p}, !.pub[p].pc = "returned"]
  /\ UNCHANGED <<subs, mailbox, closes>>
  /\ PubFrame

\* Unsubscribe(sub): `b.mu.Lock()`
UnsubscribeLock(s) ==
  /\ bk.uns[s] = "idle"
  /\ WriteLockFree
  /\ bk' = [bk EXCEPT !.writer = s, !.uns[s] = "locked"]
  /\ UNCHANGED <<subs, mailbox, closes>>
  /\ PubFrame

\* Unsubscribe(sub): `delete(subs, sub)` and `b.mu.Unlock()`
UnsubscribeDelete(s) ==
  /\ bk.uns[s] = "locked"
  /\ subs' = [subs EXCEPT ![stopic[s]] = @ \ {s}]
  /\ bk' = [bk EXCEPT !.writer = 0, !.uns[s] = "unlocked"]
  /\ UNCHANGED <<mailbox, closes>>
  /\ PubFrame

\* Unsubscribe(sub): `close(sub.ch)`
UnsubscribeClose(s) ==
  /\ bk.uns[s] = "unlocked"
  /\ closes' = [closes EXCEPT ![s] = @ + 1]
  /\ bk' = [bk EXCEPT !.uns[s] = "returned"]
  /\ UNCHANGED <<subs, mailbox>>
  /\ PubFrame

PubNext ==
  \/ \E p \in Publishers, t \in Topics : PublishRLock(p, t)
  \/ \E p \in Publishers, s \in Subs : PublishSend(p, s)
  \/ \E p \in Publishers : PublishRUnlock(p)
  \/ \E s \in Subs : UnsubscribeLock(s)
  \/ \E s \in Subs : UnsubscribeDelete(s)
  \/ \E s \in Subs : UnsubscribeClose(s)

\* =====================================================================
\* scheduler.Scheduler: Start, Stop, run, syncCronTriggers, tick, executeTrigger
\* =====================================================================
\* The clock counts tick intervals (tickInterval, 10 s).  A cron expression
\* is modelled by its period p >= 1: its occurrences are the multiples of p.
\* cron = 0 is a trigger without a cron expression (one-shot).

Triggers == 1..NumTriggers

NoTrigger == [present |-> FALSE, cron |-> 0, enabled |-> FALSE, nextRun |-> 0]

\* a cron_expr the 5-field parser rejects: `parser.Parse` returns an error
InvalidCron == -1

\* cron.Schedule.Next(t): the first occurrence strictly after t
ScheduleNext(p, t) == ((t \div p) + 1) * p

\* the rows a triggers table may hold for one id when the process starts: no
\* row, a disabled trigger, a one-shot trigger with its delay, a cron trigger
TriggerRows ==
  {NoTrigger}
    \cup [present : {TRUE}, cron : {0}, enabled : {FALSE}, nextRun : {0}]
    \cup [present : {TRUE}, cron : {0}, enabled : {TRUE}, nextRun : 0..MaxDelay]
    \cup [present : {TRUE}, cron : 1..MaxCronPeriod, enabled : {TRUE}, nextRun : {0}]

SchedAt(tables) ==
  /\ triggers \in tables
  /\ triggerRuns = {}
  /\ nextRunID = 1
  /\ now = 0
  /\ tickPending = FALSE
  /\ mpc = "start"
  /\ spc = "new"
  /\ stopClosed = FALSE
  /\ doneClosed = FALSE
  /\ sctxDone = FALSE
  /\ due = <<>>
  /\ runID = 0
  /\ startedAt = 0
  /\ srunErr = FALSE
  /\ sfails = 0

\* the tables the process may start with: rows under the first
\* NumStartTriggers ids only
StartTables ==
  {tb \in [Triggers -> TriggerRows] : \A t \in Triggers : t > NumStartTriggers => tb[t] = NoTrigger}

SchedInit == SchedAt(StartTables)
\* no scheduler in this specification
SchedIdle == SchedAt({[t \in Triggers |-> NoTrigger]})

SchedFrame ==
  UNCHANGED <<brokerVars, storeVars, runVars, chatVars, nameVars, agentVars, subVars,
              fsVars>>

\* the ticker exists from `time.NewTicker` to the deferred `ticker.Stop()`
TickerRunning == spc \notin {"new", "sync", "exited"}

\* the outcomes of one store call: it succeeds or returns an error
SchedStoreOutcomes == IF sfails < MaxStoreFailures THEN BOOLEAN ELSE {TRUE}

\* the store call with outcome ok has returned
StoreCalled(ok) == sfails' = IF ok THEN sfails ELSE sfails + 1

\* one tick interval passes while the goroutine waits in the select or in
\* Runner.Run; the ticker's channel holds at most one tick
TimePasses ==
  /\ now < MaxTime
  /\ spc \in {"select", "run"}
  /\ now' = now + 1
  /\ tickPending' = (tickPending \/ TickerRunning)
  /\ UNCHANGED <<triggers, triggerRuns, nextRunID, mpc, spc, stopClosed, doneClosed,
                 sctxDone, due, runID, startedAt, srunErr,
                 sfails>>
  /\ SchedFrame

\* main.run: `sched.Start(ctx)`, i.e. `go s.run(ctx)`
MainStart ==
  /\ mpc = "start"
  /\ mpc' = "serving"
  /\ spc' = "sync"
  /\ UNCHANGED <<triggers, triggerRuns, nextRunID, now, tickPending, stopClosed,
                 doneClosed, sctxDone, due, runID, startedAt, srunErr, sfails>>
  /\ SchedFrame

\* main.run returns, its deferred `sched.Stop()` runs: `close(s.stop)`
MainStopClose ==
  /\ mpc = "serving"
  /\ mpc' = "stop_wait"
  /\ stopClosed' = TRUE
  /\ UNCHANGED <<triggers, triggerRuns, nextRunID, now, tickPending, spc, doneClosed,
                 sctxDone, due, runID, startedAt, srunErr,
                 sfails>>
  /\ SchedFrame

\* a receive that does not wait for the channel to be closed
DoneReceivableAlways == TRUE

\* `<-s.done` can proceed: nothing is ever sent on done, so only once it is closed
DoneReceivable == doneClosed

\* Stop: `<-s.done`, then Stop returns
MainStopWait ==
  /\ mpc = "stop_wait"
  /\ DoneReceivable
  /\ mpc' = "stopped"
  /\ UNCHANGED <<triggers, triggerRuns, nextRunID, now, tickPending, spc, stopClosed,
                 doneClosed, sctxDone, due, runID, startedAt, srunErr, sfails>>
  /\ SchedFrame

\* main.run: the deferred `cancel()`, after the deferred Stop returned
MainCancel ==
  /\ mpc = "stopped"
  /\ mpc' = "exited"
  /\ sctxDone' = TRUE
  /\ UNCHANGED <<triggers, triggerRuns, nextRunID, now, tickPending, spc, stopClosed,
                 doneClosed, due, runID, startedAt, srunErr,
                 sfails>>
  /\ SchedFrame

\* the triggers of the table whose cron expression parses
CronTriggers == {t \in Triggers : triggers[t].present /\ triggers[t].cron > 0}

\* the sets of rows syncCronTriggers may update: all cron triggers, or all but
\* one whose UpdateTriggerNextRun failed, or none when ListAllTriggers failed
SyncedSets ==
  {CronTriggers} \cup
    (IF sfails < MaxStoreFailures
       THEN {{}} \cup {CronTriggers \ {t} : t \in CronTriggers}
       ELSE {})

\* run: syncCronTriggers sets next_run_at of every cron trigger to the next
\* occurrence after now; a failed store call is logged only
SchedSync ==
  /\ spc = "sync"
  /\ \E synced \in SyncedSets :
       /\ triggers' = [t \in Triggers |->
                        IF t \in synced
                          THEN [triggers[t] EXCEPT
                                  !.nextRun = ScheduleNext(triggers[t].cron, now)]
                          ELSE triggers[t]]
       /\ StoreCalled(synced = CronTriggers)
  /\ spc' = "select"
  /\ UNCHANGED <<triggerRuns, nextRunID, now, tickPending, mpc, stopClosed, doneClosed,
                 sctxDone, due, runID, startedAt, srunErr>>
  /\ SchedFrame

\* run: `case <-s.stop:` or `case <-ctx.Done():` of the select, then the
\* deferred ticker.Stop() and close(s.done)
SchedSelectStop ==
  /\ spc = "select"
  /\ stopClosed \/ sctxDone
  /\ spc' = "exited"
  /\ doneClosed' = TRUE
  /\ UNCHANGED <<triggers, triggerRuns, nextRunID, now, tickPending, mpc, stopClosed,
                 sctxDone, due, runID, startedAt, srunErr,
                 sfails>>
  /\ SchedFrame

\* GetDueTriggers: WHERE enabled = 1 AND next_run_at <= ?
DueTriggers == {t \in Triggers : /\ triggers[t].present
                                 /\ triggers[t].enabled
                                 /\ triggers[t].nextRun <= now}

\* a query without ORDER BY: the due rows in any order
DueOrdersUnsorted ==
  {q \in [1..Cardinality(DueTriggers) -> DueTriggers] :
     \A i, j \in DOMAIN q : i < j => q[i] # q[j]}

\* GetDueTriggers: ORDER BY next_run_at ASC; rows with equal next_run_at come
\* in any order
DueOrders ==
  {q \in [1..Cardinality(DueTriggers) -> DueTriggers] :
     \A i, j \in DOMAIN q : i < j => /\ q[i] # q[j]
                                     /\ triggers[q[i]].nextRun <= triggers[q[j]].nextRun}

\* the store.Trigger values of the rows, as read by the query
Snapshot(q) == [i \in DOMAIN q |-> [id |-> q[i], cron |-> triggers[q[i]].cron]]

\* where the goroutine goes with `rest` left to execute: executeTrigger for
\* its head, or back to the select
AfterTrigger(rest) == IF rest = <<>> THEN "select" ELSE "create"

\* run: `case <-ticker.C:` and tick up to its loop; a failed GetDueTriggers
\* is logged and ends the tick
SchedSelectTick ==
  /\ spc = "select"
  /\ tickPending
  /\ tickPending' = FALSE
  /\ \E ok \in SchedStoreOutcomes :
       /\ StoreCalled(ok)
       /\ IF ok
            THEN \E q \in DueOrders : due' = Snapshot(q)
            ELSE due' = <<>>
  /\ spc' = AfterTrigger(due')
  /\ UNCHANGED <<triggers, triggerRuns, nextRunID, now, mpc, stopClosed, doneClosed,
                 sctxDone, runID, startedAt, srunErr>>
  /\ SchedFrame

\* executeTrigger: CreateTriggerRun with status "running"; on an error
\* executeTrigger returns it and tick goes on with the next trigger
ExecCreateTriggerRun ==
  /\ spc = "create"
  /\ nextRunID' = nextRunID + 1
  /\ \E ok \in SchedStoreOutcomes :
       /\ StoreCalled(ok)
       /\ IF ok
            THEN /\ triggerRuns' = triggerRuns \cup
                      {[id |-> nextRunID, trigger |-> Head(due).id, status |-> "running"]}
                 /\ runID' = nextRunID
                 /\ startedAt' = now
                 /\ spc' = "run"
                 /\ due' = due
            ELSE /\ triggerRuns' = triggerRuns
                 /\ UNCHANGED <<runID, startedAt>>
                 /\ due' = Tail(due)
                 /\ spc' = AfterTrigger(Tail(due))
  /\ UNCHANGED <<triggers, now, tickPending, mpc, stopClosed, doneClosed, sctxDone,
                 srunErr>>
  /\ SchedFrame

\* executeTrigger: `s.runner.Run(ctx, ...)` returns, with or without an error
ExecRunReturns ==
  /\ spc = "run"
  /\ srunErr' \in BOOLEAN
  /\ spc' = "update"
  /\ UNCHANGED <<triggers, triggerRuns, nextRunID, now, tickPending, mpc, stopClosed,
                 doneClosed, sctxDone, due, runID, startedAt,
                 sfails>>
  /\ SchedFrame

\* UpdateTriggerRun: UPDATE trigger_runs SET status = ? ... WHERE id = ?
UpdateTriggerRun(id, status) ==
  {IF r.id = id THEN [r EXCEPT !.status = status] ELSE r : r \in triggerRuns}

\* executeTrigger: the run's status is written; a failure is logged only
ExecUpdateTriggerRun ==
  /\ spc = "update"
  /\ \E ok \in SchedStoreOutcomes :
       /\ StoreCalled(ok)
       /\ triggerRuns' =
            IF ok
              THEN UpdateTriggerRun(runID, IF srunErr THEN "failed" ELSE "completed")
              ELSE triggerRuns
  /\ spc' = "next"
  /\ UNCHANGED <<triggers, nextRunID, now, tickPending, mpc, stopClosed, doneClosed,
                 sctxDone, due, runID, startedAt, srunErr>>
  /\ SchedFrame

\* `nextRun := schedule.Next(time.Now())`, evaluated after Run returned
NextRun == ScheduleNext(Head(due).cron, now)

\* executeTrigger returns: its locals are gone
ExecReturn ==
  /\ runID' = 0
  /\ startedAt' = 0
  /\ srunErr' = FALSE
  /\ due' = Tail(due)
  /\ spc' = AfterTrigger(Tail(due))

\* executeTrigger, cron trigger: UpdateTriggerNextRun; a failure is logged only
ExecUpdateNextRun ==
  /\ spc = "next"
  /\ Head(due).cron > 0
  /\ \E ok \in SchedStoreOutcomes :
       /\ StoreCalled(ok)
       /\ triggers' = IF ok /\ triggers[Head(due).id].present
                        THEN [triggers EXCEPT ![Head(due).id].nextRun = NextRun]
                        ELSE triggers
  /\ ExecReturn
  /\ UNCHANGED <<triggerRuns, nextRunID, now, tickPending, mpc, stopClosed, doneClosed,
                 sctxDone>>
  /\ SchedFrame

\* executeTrigger, cron trigger whose expression does not parse: the error is
\* logged and next_run_at stays as it was
ExecParseFails ==
  /\ spc = "next"
  /\ Head(due).cron = InvalidCron
  /\ ExecReturn
  /\ UNCHANGED <<triggers, triggerRuns, nextRunID, now, tickPending, mpc, stopClosed,
                 doneClosed, sctxDone, sfails>>
  /\ SchedFrame

\* trigger_runs.trigger_id REFERENCES triggers(id) ON DELETE CASCADE, with
\* foreign keys enforced: the runs of a deleted trigger go with it
CascadeTriggerRuns(t) == {r \in triggerRuns : r.trigger # t}

\* executeTrigger, one-shot trigger: DeleteTrigger; a failure is logged only
ExecDeleteTrigger ==
  /\ spc = "next"
  /\ Head(due).cron = 0
  /\ \E ok \in SchedStoreOutcomes :
       /\ StoreCalled(ok)
       /\ triggers' = IF ok THEN [triggers EXCEPT ![Head(due).id] = NoTrigger]
                            ELSE triggers
       /\ triggerRuns' = IF ok THEN CascadeTriggerRuns(Head(due).id) ELSE triggerRuns
  /\ ExecReturn
  /\ UNCHANGED <<nextRunID, now, tickPending, mpc, stopClosed, doneClosed, sctxDone>>
  /\ SchedFrame

SchedNext ==
  \/ TimePasses
  \/ MainStart
  \/ MainStopClose
  \/ MainStopWait
  \/ MainCancel
  \/ SchedSync
  \/ SchedSelectStop
  \/ SchedSelectTick
  \/ ExecCreateTriggerRun
  \/ ExecRunReturns
  \/ ExecUpdateTriggerRun
  \/ ExecUpdateNextRun
  \/ ExecDeleteTrigger

\* ---- the triggers table: trigger.Service, schedule_agent_run, the due query
\* The table starts empty and the model follows the one trigger that is
\* created first, through its updates and the ticks.
\* Time is counted in hours.  An RFC3339 string is its wall-clock reading and
\* its zone suffix: "Z" for offset 0, "+01:00" or "-01:00" otherwise.

\* the hours that pass
MaxTrigTime == 2

\* the zone offsets of the process's time.Local
LocalZones == {0 - 1, 0, 1}
UTC == 0

\* sql.NullString{}: NULL
NullStamp == [valid |-> FALSE, wall |-> 0, zone |-> 0]

\* t.In(loc).Format(time.RFC3339) as a valid NullString
FormatRFC3339(t, loc) == [valid |-> TRUE, wall |-> t + loc, zone |-> loc]

\* the instant an RFC3339 string denotes
Instant(stamp) == stamp.wall - stamp.zone

\* the first byte of the zone suffix: '+' (43) < '-' (45) < 'Z' (90)
SuffixRank(zone) == IF zone > 0 THEN 0 ELSE IF zone < 0 THEN 1 ELSE 2

\* SQLite's `a <= b` on TEXT: byte by byte, the date and time digits first,
\* then the zone suffix
TextLE(a, b) ==
  \/ a.wall < b.wall
  \/ a.wall = b.wall /\ SuffixRank(a.zone) <= SuffixRank(b.zone)

\* the arguments the callers pass
CronArgs == {"", "bad", "0 * * * *"}
DelayArgs == {"", "bad", "0h", "-1h", "1h"}
AgentArgs == {"", "b"}

\* parser.Parse(expr) succeeds; the schedule's period in hours
CronParses(expr) == expr = "0 * * * *"
CronPeriod(expr) == 1

\* time.ParseDuration(s): whether it parses, and the hours
DurationParses(s) == s \in {"0h", "-1h", "1h"}
DurationHours(s) == IF s = "1h" THEN 1 ELSE IF s = "-1h" THEN 0 - 1 ELSE 0

\* no call has been made yet; the arguments of a call
NoTrigCall == [op |-> "none", prompt |-> "", delay |-> "", cron |-> "", agent |-> "",
               ctxAgent |-> ""]
TrigCall(op, prompt, delay, cron, agent, ctxAgent) ==
  [op |-> op, prompt |-> prompt, delay |-> delay, cron |-> cron, agent |-> agent,
   ctxAgent |-> ctxAgent]

\* nothing uses the triggers table
NoTsvc ==
  [tz |-> 0, now |-> 0, rows |-> <<>>, call |-> NoTrigCall, ret |-> "", nowStr |-> NullStamp,
   due |-> {}]

TrigFrame ==
  /\ UNCHANGED <<brokerVars, storeVars, runVars, chatVars, nameVars, agentVars, subVars,
                 schedVars>>
  /\ UNCHANGED <<fs, fsCalls, fsTool, fsRoot, fsArg, fsErr, fsRead, fsWrote, fcpc, fcPath,
                 fcRet, fsText, view, dispatch, bk>>

\* store.CreateTriggerParams, the columns the model keeps
TriggerRow(agent, cron, nextRunAt, updatedAt) ==
  [agent |-> agent, cron |-> cron, enabled |-> TRUE, nextRunAt |-> nextRunAt,
   updatedAt |-> updatedAt]

\* the call returns err (a message) without touching the table
TrigFails(call, err) ==
  tsvc' = [tsvc EXCEPT !.call = call, !.ret = err]

\* the call inserts row and returns no error
TrigCreates(call, row) ==
  tsvc' = [tsvc EXCEPT !.call = call, !.ret = "", !.rows = Append(@, row)]

\* Service.CreateTrigger(req): `now := time.Now().UTC()`; cron_expr first,
\* else delay, else neither; then the insert
ServiceCreateTrigger(cron, delay) ==
  /\ tsvc.rows = <<>>
  /\ LET call == TrigCall("service_create", "p", delay, cron, "a", "")
         tnow == tsvc.now
     IN IF cron # ""
          THEN IF ~CronParses(cron)
                 THEN TrigFails(call, "invalid cron expression")
                 ELSE TrigCreates(call,
                        TriggerRow("a", cron,
                                   FormatRFC3339(ScheduleNext(CronPeriod(cron), tnow), UTC),
                                   FormatRFC3339(tnow, UTC)))
        ELSE IF delay # ""
          THEN IF ~DurationParses(delay)
                 THEN TrigFails(call, "invalid delay duration")
                 ELSE TrigCreates(call,
                        TriggerRow("a", "", FormatRFC3339(tnow + DurationHours(delay), UTC),
                                   FormatRFC3339(tnow, UTC)))
        ELSE TrigCreates(call, TriggerRow("a", "", NullStamp, FormatRFC3339(tnow, UTC)))
  /\ TrigFrame

\* Service.UpdateTrigger(req) on row i: cron_expr and next_run_at are set from
\* the request's cron_expr, NULL when it is empty
ServiceUpdateTrigger(i, cron, enabled) ==
  /\ i \in DOMAIN tsvc.rows
  /\ LET call == TrigCall("service_update", "p", "", cron, "a", "")
         tnow == tsvc.now
     IN IF cron # "" /\ ~CronParses(cron)
          THEN TrigFails(call, "invalid cron expression")
          ELSE tsvc' = [tsvc EXCEPT
                 !.call = call, !.ret = "",
                 !.rows[i] = [@ EXCEPT
                    !.cron = cron,
                    !.enabled = enabled,
                    !.nextRunAt =
                       IF cron # ""
                         THEN FormatRFC3339(ScheduleNext(CronPeriod(cron), tnow), UTC)
                         ELSE NullStamp,
                    !.updatedAt = FormatRFC3339(tnow, UTC)]]
  /\ TrigFrame

\* Creator.CreateTrigger: `now := time.Now().Format(time.RFC3339)`,
\* NewNullString(cronExpr), NewNullString(nextRunAt.Format(time.RFC3339))
CreatorCreateTrigger(call, agentID, cronExpr, nextRunAt) ==
  TrigCreates(call, TriggerRow(agentID, cronExpr, FormatRFC3339(nextRunAt, tsvc.tz),
                               FormatRFC3339(tsvc.now, tsvc.tz)))

\* a handler that takes the cron expression when both are given
BothGivenAllowed(delay, cron) == FALSE

\* `if args.Delay != "" && args.Cron != ""`
BothGiven(delay, cron) == delay # "" /\ cron # ""

\* the schedule_agent_run handler: the validations in their order, then
\* creator.CreateTrigger
ScheduleAgentRun(prompt, delay, cron, agent, ctxAgent) ==
  /\ tsvc.rows = <<>>
  /\ LET call == TrigCall("schedule", prompt, delay, cron, agent, ctxAgent)
         agentID == IF agent = "" THEN ctxAgent ELSE agent
         tnow == tsvc.now
     IN IF prompt = "" THEN TrigFails(call, "prompt is required")
        ELSE IF BothGiven(delay, cron)
          THEN TrigFails(call, "delay and cron are mutually exclusive")
        ELSE IF delay = "" /\ cron = ""
          THEN TrigFails(call, "either delay or cron must be specified")
        ELSE IF agentID = ""
          THEN TrigFails(call, "agent_id is required (no current agent in context)")
        ELSE IF delay # ""
          THEN IF ~DurationParses(delay) THEN TrigFails(call, "invalid delay format")
               ELSE IF DurationHours(delay) <= 0
                 THEN TrigFails(call, "delay must be positive")
               ELSE CreatorCreateTrigger(call, agentID, "", tnow + DurationHours(delay))
        ELSE IF ~CronParses(cron) THEN TrigFails(call, "invalid cron expression")
        ELSE CreatorCreateTrigger(call, agentID, cron, ScheduleNext(CronPeriod(cron), tnow))
  /\ TrigFrame

\* tick: `nowStr := time.Now().Format(time.RFC3339)` and GetDueTriggers:
\* WHERE enabled = 1 AND next_run_at <= ? (never true of a NULL next_run_at)
TickGetDueTriggers ==
  /\ LET nowStr == FormatRFC3339(tsvc.now, tsvc.tz)
     IN tsvc' = [tsvc EXCEPT
          !.call = TrigCall("tick", "", "", "", "", ""),
          !.ret = "",
          !.nowStr = nowStr,
          !.due = {i \in DOMAIN tsvc.rows :
                     /\ tsvc.rows[i].enabled
                     /\ tsvc.rows[i].nextRunAt.valid
                     /\ TextLE(tsvc.rows[i].nextRunAt, nowStr)}]
  /\ TrigFrame

\* an hour passes
TrigTimePasses ==
  /\ tsvc.now < MaxTrigTime
  /\ tsvc' = [tsvc EXCEPT !.now = @ + 1]
  /\ TrigFrame

TrigNext ==
  \/ \E cron \in CronArgs, delay \in DelayArgs : ServiceCreateTrigger(cron, delay)
  \/ \E i \in DOMAIN tsvc.rows, cron \in CronArgs, enabled \in BOOLEAN :
       ServiceUpdateTrigger(i, cron, enabled)
  \/ \E prompt \in {"", "p"}, delay \in DelayArgs, cron \in CronArgs, agent \in AgentArgs,
        ctxAgent \in {"", "a"} : ScheduleAgentRun(prompt, delay, cron, agent, ctxAgent)
  \/ TickGetDueTriggers
  \/ TrigTimePasses

\* ---- one tick over a table with several due triggers

\* the rows of a table some time after the start: as TriggerRows, the cron
\* triggers with the next_run_at syncCronTriggers gave them at time 0, and a
\* trigger whose stored expression does not parse
TickRows ==
  {NoTrigger}
    \cup [present : {TRUE}, cron : {0}, enabled : {FALSE}, nextRun : {0}]
    \cup [present : {TRUE}, cron : {0}, enabled : {TRUE}, nextRun : 0..MaxDelay]
    \cup {[present |-> TRUE, cron |-> p, enabled |-> TRUE, nextRun |-> ScheduleNext(p, 0)]
            : p \in 1..MaxCronPeriod}
    \cup [present : {TRUE}, cron : {InvalidCron}, enabled : {TRUE}, nextRun : {MaxDelay}]

\* the scheduler goroutine waits in its select at time MaxDelay and the
\* ticker has fired
TickInit ==
  /\ triggers \in [Triggers -> TickRows]
  /\ triggerRuns = {}
  /\ nextRunID = 1
  /\ now = MaxDelay
  /\ tickPending = TRUE
  /\ mpc = "serving"
  /\ spc = "select"
  /\ stopClosed = FALSE
  /\ doneClosed = FALSE
  /\ sctxDone = FALSE
  /\ due = <<>>
  /\ runID = 0
  /\ startedAt = 0
  /\ srunErr = FALSE
  /\ sfails = 0

TickNext ==
  \/ TimePasses
  \/ SchedSelectTick
  \/ ExecCreateTriggerRun
  \/ ExecRunReturns
  \/ ExecUpdateTriggerRun
  \/ ExecUpdateNextRun
  \/ ExecParseFails
  \/ ExecDeleteTrigger

\* ---- the start of the scheduler over a table with several triggers

\* the rows of the table when the process starts: as TriggerRows, a cron
\* trigger with any stored next_run_at, and a trigger whose stored expression
\* does not parse
SyncRows ==
  TriggerRows
    \cup [present : {TRUE}, cron : 1..MaxCronPeriod, enabled : {TRUE}, nextRun : 0..MaxDelay]
    \cup [present : {TRUE}, cron : {InvalidCron}, enabled : {TRUE}, nextRun : 0..MaxDelay]

SyncInit == SchedAt([Triggers -> SyncRows])

SyncNext ==
  \/ MainStart
  \/ SchedSync
  \/ TimePasses
  \/ SchedSelectTick
  \/ ExecCreateTriggerRun
  \/ ExecRunReturns
  \/ ExecUpdateTriggerRun
  \/ ExecUpdateNextRun
  \/ ExecParseFails
  \/ ExecDeleteTrigger

\* =====================================================================
\* filesystem tools: resolvePath, resolvePathForCreate and the fs_* handlers
\* =====================================================================
\* A path is the sequence of its components below "/".  The filesystem maps
\* each existing path to its entry; every other path does not exist.

\* the directory registered as the root, a symlink to it, and a directory
\* next to it that holds a file
RootDir == <<"root">>
RootLink == <<"rootlink">>
OutDir == <<"out">>
OutFile == <<"out", "file">>

\* names of the entries inside the root
FsNames == {"a", "b"}

DirEntry == [kind |-> "dir", target |-> <<>>]
FileEntry == [kind |-> "file", target |-> <<>>]
LinkEntry(t) == [kind |-> "link", target |-> t]

\* where a symlink inside the root may point: outside the root to a
\* directory, a file or a name that does not exist, or back into the root
LinkTargets ==
  {OutDir, OutFile, Append(OutDir, "new")} \cup {Append(RootDir, n) : n \in FsNames}

\* what the root may hold under one name: nothing, a file, a directory or a symlink
RootEntries ==
  {[kind |-> "none", target |-> <<>>], FileEntry, DirEntry}
    \cup {LinkEntry(t) : t \in LinkTargets}

\* the filesystem with the root holding entry e[n] under each name n
FsWith(e) ==
  LET entries == {Append(RootDir, n) : n \in {m \in FsNames : e[m].kind # "none"}}
      fixed == {<<>>, RootDir, RootLink, OutDir, OutFile}
  IN [p \in fixed \cup entries |->
        IF p \in entries THEN e[p[2]]
        ELSE IF p = RootLink THEN LinkEntry(RootDir)
        ELSE IF p = OutFile THEN FileEntry
        ELSE DirEntry]

Kind(f, p) == IF p \in DOMAIN f THEN f[p].kind ELSE "none"

\* filepath.Dir of an absolute path
Dir(p) == IF p = <<>> THEN <<>> ELSE SubSeq(p, 1, Len(p) - 1)

Failed(e) == [err |-> e, path |-> <<>>]
Resolved(p) == [err |-> "", path |-> p]

\* filepath.EvalSymlinks, walking `rest` below the resolved directory `done`;
\* it gives up after following as many links as the filesystem has entries
RECURSIVE WalkSymlinks(_, _, _, _)
WalkSymlinks(f, done, rest, hops) ==
  IF rest = <<>> THEN Resolved(done)
  ELSE LET q == Append(done, Head(rest))
           k == Kind(f, q)
       IN CASE k = "none" -> Failed("no such file or directory")
            [] k = "link" -> IF hops = 0
                               THEN Failed("too many links")
                               ELSE WalkSymlinks(f, <<>>, f[q].target \o Tail(rest), hops - 1)
            [] k = "file" -> IF Tail(rest) = <<>> THEN Resolved(q)
                                                  ELSE Failed("not a directory")
            [] k = "dir" -> WalkSymlinks(f, q, Tail(rest), hops)

EvalSymlinks(f, p) == WalkSymlinks(f, <<>>, p, Cardinality(DOMAIN f))

\* os.Stat(p) returns no error
Stat(f, p) == EvalSymlinks(f, p).err = ""

\* filepath.Clean of a relative path: "." dropped, "x/.." cancelled, leading
\* ".." kept
RECURSIVE CleanFrom(_, _)
CleanFrom(out, rest) ==
  IF rest = <<>> THEN out
  ELSE LET c == Head(rest)
       IN IF c = "." THEN CleanFrom(out, Tail(rest))
          ELSE IF c = ".." /\ out # <<>> /\ out[Len(out)] # ".."
                 THEN CleanFrom(SubSeq(out, 1, Len(out) - 1), Tail(rest))
                 ELSE CleanFrom(Append(out, c), Tail(rest))

Clean(comps) == CleanFrom(<<>>, comps)

\* cleaned == ".." || strings.HasPrefix(cleaned, "../")
Traversal(cleaned) == cleaned # <<>> /\ cleaned[1] = ".."

\* a check that lets every path through
WithinRootAlways(resolved, absRoot) == TRUE

\* strings.HasPrefix(resolved, absRoot+"/") || resolved == absRoot
WithinRoot(resolved, absRoot) ==
  /\ Len(resolved) >= Len(absRoot)
  /\ SubSeq(resolved, 1, Len(absRoot)) = absRoot

\* resolvePath(rootPath, relativePath); in = [abs, comps]
ResolvePath(f, rootPath, in) ==
  IF in.abs THEN Failed("absolute paths are not allowed")
  ELSE IF Traversal(Clean(in.comps)) THEN Failed("path traversal is not allowed")
  ELSE LET resolved == EvalSymlinks(f, rootPath \o Clean(in.comps))
           absRoot == EvalSymlinks(f, rootPath)
       IN IF resolved.err # "" THEN Failed("resolve path")
          ELSE IF absRoot.err # "" THEN Failed("resolve root")
          ELSE IF ~WithinRoot(resolved.path, absRoot.path)
                 THEN Failed("path escapes root directory")
                 ELSE resolved

\* resolvePathForCreate: the nearest existing ancestor of the target, from
\* its parent upwards, stopping at absRoot
RECURSIVE NearestAncestor(_, _, _)
NearestAncestor(f, ancestor, absRoot) ==
  IF ancestor = absRoot \/ Stat(f, ancestor) \/ Dir(ancestor) = ancestor
    THEN ancestor
    ELSE NearestAncestor(f, Dir(ancestor), absRoot)

\* resolvePathForCreate(rootPath, relativePath): the unresolved target below
\* the resolved root, once its nearest existing ancestor is inside the root
ResolvePathForCreate(f, rootPath, in) ==
  IF in.abs THEN Failed("absolute paths are not allowed")
  ELSE IF Traversal(Clean(in.comps)) THEN Failed("path traversal is not allowed")
  ELSE LET absRoot == EvalSymlinks(f, rootPath)
       IN IF absRoot.err # "" THEN Failed("resolve root")
          ELSE LET targetPath == absRoot.path \o Clean(in.comps)
                   ancestor == NearestAncestor(f, Dir(targetPath), absRoot.path)
                   resolvedAncestor == EvalSymlinks(f, ancestor)
               IN IF resolvedAncestor.err # "" THEN Failed("resolve ancestor")
                  ELSE IF ~WithinRoot(resolvedAncestor.path, absRoot.path)
                         THEN Failed("path escapes root directory")
                         ELSE Resolved(targetPath)

\* the outcome of an operation that changes the filesystem: the error, the
\* filesystem after it, and the entries it created or wrote
Changed(f, ps) == [err |-> "", fs |-> f, wrote |-> ps]
Unchanged(f, e) == [err |-> e, fs |-> f, wrote |-> {}]

\* f with entry e at path q
Put(f, q, e) == [p \in DOMAIN f \cup {q} |-> IF p = q THEN e ELSE f[p]]

\* os.Mkdir(p): the parent is followed through symlinks, the name must be free;
\* os.MkdirAll accepts the error when the name is a directory already
Mkdir(f, p) ==
  LET parent == EvalSymlinks(f, Dir(p))
      q == Append(parent.path, p[Len(p)])
  IN IF parent.err # "" THEN Unchanged(f, parent.err)
     ELSE IF Kind(f, parent.path) # "dir" THEN Unchanged(f, "not a directory")
     ELSE IF Kind(f, q) = "dir" THEN Changed(f, {})
     ELSE IF Kind(f, q) # "none" THEN Unchanged(f, "file exists")
     ELSE Changed(Put(f, q, DirEntry), {q})

\* os.MkdirAll(p)
RECURSIVE MkdirAll(_, _)
MkdirAll(f, p) ==
  LET st == EvalSymlinks(f, p)
  IN IF st.err = ""
       THEN IF Kind(f, st.path) = "dir" THEN Changed(f, {})
                                        ELSE Unchanged(f, "not a directory")
       ELSE IF p = <<>> THEN Unchanged(f, st.err)
       ELSE LET up == MkdirAll(f, Dir(p))
            IN IF up.err # "" THEN Unchanged(f, up.err)
               ELSE LET made == Mkdir(up.fs, p)
                    IN IF made.err # "" THEN [made EXCEPT !.wrote = up.wrote]
                       ELSE [made EXCEPT !.wrote = up.wrote \cup made.wrote]

\* os.WriteFile(p): open with O_WRONLY|O_CREATE|O_TRUNC, which follows a
\* symlink at the last component and creates the file the link names
RECURSIVE WriteFile(_, _, _)
WriteFile(f, p, hops) ==
  IF p = <<>> THEN Unchanged(f, "is a directory")
  ELSE LET parent == EvalSymlinks(f, Dir(p))
           q == Append(parent.path, p[Len(p)])
           k == Kind(f, q)
       IN IF parent.err # "" THEN Unchanged(f, parent.err)
          ELSE IF Kind(f, parent.path) # "dir" THEN Unchanged(f, "not a directory")
          ELSE CASE k = "none" -> Changed(Put(f, q, FileEntry), {q})
                 [] k = "file" -> Changed(f, {q})
                 [] k = "dir" -> Unchanged(f, "is a directory")
                 [] k = "link" -> IF hops = 0 THEN Unchanged(f, "too many links")
                                  ELSE WriteFile(f, f[q].target, hops - 1)

\* the root paths a FilesystemRoot may give, and the path arguments a call may
\* give: relative ones, and the absolute paths of the root and of a file outside
RootPaths == {RootDir, RootLink}
\* the goroutines running fs_create at once
NumCreators == 2
Creators == 1..NumCreators
PathComps == FsNames \cup {".."}
RelativePaths == UNION {[1..n -> PathComps] : n \in 0..MaxPathLen}
PathArgs ==
  [abs : {FALSE}, comps : RelativePaths]
    \cup [abs : {TRUE}, comps : {RootDir, OutFile}]

\* no fs_view call is past its ReadFile
NoView == [data |-> <<>>, range |-> <<>>, out |-> [kind |-> "none", rows |-> <<>>]]

\* no agent's tools are looked at
NoDispatch ==
  [pc |-> "none", cfg |-> [tools |-> {}, channels |-> {}, fsTools |-> {}],
   offered |-> {}, name |-> <<>>, ran |-> <<>>]

\* the fs_create worker goroutines at position pc
CreatorsAt(pc) ==
  /\ fcpc = [w \in Creators |-> pc]
  /\ fcPath = [w \in Creators |-> <<>>]
  /\ fcRet = [w \in Creators |-> ""]
  /\ fsText = EmptyMap
  /\ view = NoView
  /\ dispatch = NoDispatch
  /\ bk = NoBk
  /\ tsvc = NoTsvc

FsAt(layouts) ==
  /\ CreatorsAt("none")
  /\ fs \in layouts
  /\ fsCalls = 0
  /\ fsTool = ""
  /\ fsRoot = RootDir
  /\ fsArg = [abs |-> FALSE, comps |-> <<>>]
  /\ fsErr = ""
  /\ fsRead = {}
  /\ fsWrote = {}

FsInit == FsAt({FsWith(e) : e \in [FsNames -> RootEntries]})
\* no filesystem tool call in this specification
FsIdle == FsAt({FsWith([n \in FsNames |-> [kind |-> "none", target |-> <<>>]])})

\* one more handler call, with its arguments
FsCall(tool, rootPath, in) ==
  /\ fsCalls < MaxFsCalls
  /\ fsCalls' = fsCalls + 1
  /\ fsTool' = tool
  /\ fsRoot' = rootPath
  /\ fsArg' = in
  /\ UNCHANGED <<brokerVars, storeVars, runVars, chatVars, nameVars, agentVars, subVars,
                 schedVars, createVars>>

\* a handler returns the error of resolvePath
FsRejected(e) ==
  /\ fsErr' = e
  /\ fsRead' = {}
  /\ fsWrote' = {}
  /\ fs' = fs

\* fs_view: os.Stat, then os.ReadDir or os.ReadFile of the resolved path
FsView(rootPath, in) ==
  /\ FsCall("fs_view", rootPath, in)
  /\ LET resolved == ResolvePath(fs, rootPath, in)
     IN IF resolved.err # "" THEN FsRejected(resolved.err)
        ELSE /\ fsErr' = ""
             /\ fsRead' = {resolved.path}
             /\ fsWrote' = {}
             /\ fs' = fs

\* fs_str_replace and fs_insert: os.ReadFile of the resolved path, then,
\* when the edit applies (old_str found once, insert_line in range),
\* os.WriteFile of it
FsEdit(rootPath, in, applies) ==
  /\ LET resolved == ResolvePath(fs, rootPath, in)
         written == WriteFile(fs, resolved.path, 0)
     IN IF resolved.err # "" THEN FsRejected(resolved.err)
        ELSE IF Kind(fs, resolved.path) # "file"
               THEN /\ fsErr' = "read file"
                    /\ fsRead' = {resolved.path}
                    /\ fsWrote' = {}
                    /\ fs' = fs
        ELSE IF ~applies
               THEN /\ fsErr' = "edit does not apply"
                    /\ fsRead' = {resolved.path}
                    /\ fsWrote' = {}
                    /\ fs' = fs
               ELSE /\ fsErr' = written.err
                    /\ fsRead' = {resolved.path}
                    /\ fsWrote' = written.wrote
                    /\ fs' = written.fs

FsStrReplace(rootPath, in, applies) ==
  /\ FsCall("fs_str_replace", rootPath, in)
  /\ FsEdit(rootPath, in, applies)

FsInsert(rootPath, in, applies) ==
  /\ FsCall("fs_insert", rootPath, in)
  /\ FsEdit(rootPath, in, applies)

\* fs_create: the target must not exist for os.Stat, then os.MkdirAll of its
\* directory and os.WriteFile of the target
FsCreate(rootPath, in) ==
  /\ FsCall("fs_create", rootPath, in)
  /\ LET resolved == ResolvePathForCreate(fs, rootPath, in)
         dirs == MkdirAll(fs, Dir(resolved.path))
         written == WriteFile(dirs.fs, resolved.path, Cardinality(DOMAIN dirs.fs))
     IN IF resolved.err # "" THEN FsRejected(resolved.err)
        ELSE IF Stat(fs, resolved.path) THEN FsRejected("file already exists")
        ELSE IF dirs.err # ""
               THEN /\ fsErr' = "create directories"
                    /\ fsRead' = {}
                    /\ fsWrote' = dirs.wrote
                    /\ fs' = dirs.fs
               ELSE /\ fsErr' = IF written.err # "" THEN "write file" ELSE ""
                    /\ fsRead' = {}
                    /\ fsWrote' = dirs.wrote \cup written.wrote
                    /\ fs' = written.fs

FsNext ==
  \/ \E r \in RootPaths, in \in PathArgs : FsView(r, in)
  \/ \E r \in RootPaths, in \in PathArgs, applies \in BOOLEAN : FsStrReplace(r, in, applies)
  \/ \E r \in RootPaths, in \in PathArgs, applies \in BOOLEAN : FsInsert(r, in, applies)
  \/ \E r \in RootPaths, in \in PathArgs : FsCreate(r, in)

\* =====================================================================
\* fs_create handlers running concurrently, as the workers of one
\* ProcessOutput whose function calls name the same root and path
\* =====================================================================

CreateSuccess == "File created successfully."

\* the text worker w was called with
FileText(w) == "text" \o ToString(w)

\* the calls: the root's path in fsRoot, the path argument in fsArg
CreateInit ==
  /\ fs \in {FsWith(e) : e \in [FsNames -> RootEntries]}
  /\ fsCalls = 0
  /\ fsTool = "fs_create"
  /\ fsRoot \in RootPaths
  /\ fsArg \in PathArgs
  /\ fsErr = ""
  /\ fsRead = {}
  /\ fsWrote = {}
  /\ CreatorsAt("resolve")

CreateFrame ==
  UNCHANGED <<brokerVars, storeVars, runVars, chatVars, nameVars, agentVars, subVars,
              schedVars, fsCalls, fsTool, fsRoot, fsArg, fsErr, fsRead, fsWrote, view,
              dispatch, bk, tsvc>>

\* the handler of worker w returns an error
CreateFails(w, e) ==
  /\ fcRet' = [fcRet EXCEPT ![w] = e]
  /\ fcpc' = [fcpc EXCEPT ![w] = "done"]

\* `resolved, err := resolvePathForCreate(root.Path, p.Path)`
CreateResolve(w) ==
  /\ fcpc[w] = "resolve"
  /\ LET resolved == ResolvePathForCreate(fs, fsRoot, fsArg)
     IN IF resolved.err # ""
          THEN CreateFails(w, resolved.err) /\ UNCHANGED fcPath
          ELSE /\ fcPath' = [fcPath EXCEPT ![w] = resolved.path]
               /\ fcpc' = [fcpc EXCEPT ![w] = "stat"]
               /\ UNCHANGED fcRet
  /\ UNCHANGED <<fs, fsText>>
  /\ CreateFrame

\* `if _, err := os.Stat(resolved); err == nil { return "", "file already exists" }`
CreateStat(w) ==
  /\ fcpc[w] = "stat"
  /\ IF Stat(fs, fcPath[w])
       THEN CreateFails(w, "file already exists")
       ELSE fcpc' = [fcpc EXCEPT ![w] = "mkdir"] /\ UNCHANGED fcRet
  /\ UNCHANGED <<fs, fsText, fcPath>>
  /\ CreateFrame

\* `os.MkdirAll(filepath.Dir(resolved), 0755)`
CreateMkdirAll(w) ==
  /\ fcpc[w] = "mkdir"
  /\ LET dirs == MkdirAll(fs, Dir(fcPath[w]))
     IN /\ fs' = dirs.fs
        /\ IF dirs.err # ""
             THEN CreateFails(w, "create directories")
             ELSE fcpc' = [fcpc EXCEPT ![w] = "write"] /\ UNCHANGED fcRet
  /\ UNCHANGED <<fsText, fcPath>>
  /\ CreateFrame

\* the texts after a write of t to the files ps
TextsWith(texts, ps, t) ==
  [p \in DOMAIN texts \cup ps |-> IF p \in ps THEN t ELSE texts[p]]

\* `os.WriteFile(resolved, []byte(p.FileText), 0644)`, return
CreateWriteFile(w) ==
  /\ fcpc[w] = "write"
  /\ LET written == WriteFile(fs, fcPath[w], Cardinality(DOMAIN fs))
     IN /\ fs' = written.fs
        /\ IF written.err # ""
             THEN /\ fcRet' = [fcRet EXCEPT ![w] = "write file"]
                  /\ fsText' = fsText
             ELSE /\ fcRet' = [fcRet EXCEPT ![w] = CreateSuccess]
                  /\ fsText' = TextsWith(fsText, written.wrote, FileText(w))
  /\ fcpc' = [fcpc EXCEPT ![w] = "done"]
  /\ UNCHANGED fcPath
  /\ CreateFrame

CreateNext ==
  \/ \E w \in Creators : CreateResolve(w)
  \/ \E w \in Creators : CreateStat(w)
  \/ \E w \in Creators : CreateMkdirAll(w)
  \/ \E w \in Creators : CreateWriteFile(w)

\* the process starts in some time zone with an empty triggers table
TrigInit ==
  /\ fs \in {FsWith([n \in FsNames |-> [kind |-> "none", target |-> <<>>]])}
  /\ fsCalls = 0
  /\ fsTool = ""
  /\ fsRoot = RootDir
  /\ fsArg = [abs |-> FALSE, comps |-> <<>>]
  /\ fsErr = ""
  /\ fsRead = {}
  /\ fsWrote = {}
  /\ fcpc = [w \in Creators |-> "none"]
  /\ fcPath = [w \in Creators |-> <<>>]
  /\ fcRet = [w \in Creators |-> ""]
  /\ fsText = EmptyMap
  /\ view = NoView
  /\ dispatch = NoDispatch
  /\ bk = NoBk
  /\ tsvc \in [tz : LocalZones, now : {0}, rows : {<<>>}, call : {NoTrigCall}, ret : {""},
              nowStr : {NullStamp}, due : {{}}]

\* ---- fs_view: the lines of the file and view_range

NL == "\n"
ViewBytes == {"a", NL}
ViewDatas == UNION {[1..n -> ViewBytes] : n \in 0..MaxViewLen}
\* view_range as decoded from the arguments: absent, or two integers
ViewBounds == (0 - 1)..(MaxViewLen + 2)
ViewRanges == {<<>>} \cup (ViewBounds \X ViewBounds)

\* strings.Split(s, "\n"): the pieces between the newlines, at least one
RECURSIVE Split(_)
Split(d) ==
  IF d = <<>> THEN << <<>> >>
  ELSE IF Head(d) = NL THEN << <<>> >> \o Split(Tail(d))
  ELSE LET r == Split(Tail(d)) IN << <<Head(d)>> \o Head(r) >> \o Tail(r)

\* fmt.Sprintf("%6d\t%s", n, line) for the lines first..last
Numbered(lines, first, last) ==
  [i \in 1..(last - first + 1) |-> <<first + i - 1, lines[first + i - 1]>>]

\* `lines[low:high]` is in range
SliceInRange(low, high, len) == 0 <= low /\ low <= high /\ high <= len

\* the handler from `lines := strings.Split(...)` on: the numbered lines, an
\* error, or the panic of a slice expression out of range
ViewRangeResult(data, range) ==
  LET lines == Split(data)
      n == Len(lines)
  IN IF Len(range) = 2
       THEN LET start == IF range[1] < 1 THEN 1 ELSE range[1]
                end == IF range[2] > n THEN n ELSE range[2]
            IN IF start > n
                 THEN [kind |-> "error", rows |-> <<>>]
                 ELSE IF SliceInRange(start - 1, end, n)
                   THEN [kind |-> "ok", rows |-> Numbered(lines, start, end)]
                   ELSE [kind |-> "panic", rows |-> <<>>]
       ELSE [kind |-> "ok", rows |-> Numbered(lines, 1, n)]

\* os.ReadFile has returned the data of the file
ViewInit ==
  /\ fs \in {FsWith([n \in FsNames |-> [kind |-> "none", target |-> <<>>]])}
  /\ fsCalls = 0
  /\ fsTool = "fs_view"
  /\ fsRoot = RootDir
  /\ fsArg = [abs |-> FALSE, comps |-> <<>>]
  /\ fsErr = ""
  /\ fsRead = {}
  /\ fsWrote = {}
  /\ fcpc = [w \in Creators |-> "none"]
  /\ fcPath = [w \in Creators |-> <<>>]
  /\ fcRet = [w \in Creators |-> ""]
  /\ fsText = EmptyMap
  /\ view \in [data : ViewDatas, range : ViewRanges, out : {NoView.out}]
  /\ dispatch = NoDispatch
  /\ bk = NoBk
  /\ tsvc = NoTsvc

\* the handler goes on from ReadFile to its return, or panics
ViewLines ==
  /\ view.out.kind = "none"
  /\ view' = [view EXCEPT !.out = ViewRangeResult(view.data, view.range)]
  /\ UNCHANGED <<fs, fcpc, fcPath, fcRet, fsText, dispatch, bk, tsvc>>
  /\ UNCHANGED <<brokerVars, storeVars, runVars, chatVars, nameVars, agentVars, subVars,
                 schedVars, fsCalls, fsTool, fsRoot, fsArg, fsErr, fsRead, fsWrote>>

ViewNext == ViewLines

\* =====================================================================
\* tool.Executor.ProcessOutput and executeTool, called on drawn function calls
\* =====================================================================

\* the string a sequence of characters spells
RECURSIVE Join(_)
Join(s) == IF s = <<>> THEN "" ELSE Head(s) \o Join(Tail(s))

\* the keys of fsToolBuilders
FsToolBuilders == {
  <<"f", "s", "_", "v", "i", "e", "w">>,
  <<"f", "s", "_", "s", "t", "r", "_", "r", "e", "p", "l", "a", "c", "e">>,
  <<"f", "s", "_", "c", "r", "e", "a", "t", "e">>,
  <<"f", "s", "_", "i", "n", "s", "e", "r", "t">>
}

\* what a tool's Handler may return: a result, an error, an empty result, or
\* a result together with an error
HandlerReturns == ToolReturns \cup {<<"", "">>, <<"part", "boom">>}

\* Registry.Execute: `tool, ok := r.tools[name]; if !ok { return "",
\* &ErrToolNotFound{Name: name} }; return tool.Handler(ctx, args)`
RegistryExecute(name) ==
  IF name \in StaticToolNames \ FsToolBuilders
    THEN HandlerReturns
    ELSE {<<"", "tool not found: " \o Join(name)>>}

\* executeTool(ctx, name, args): every (result, error message) it may return.
\* "notify:" names go to the channel lister (nil: error; channel unknown: a
\* text and no error), fs tools to their builder (no roots in the context:
\* error), everything else to the registry.
ExecuteTool(name) ==
  IF HasPrefix(name, NotifyColon)
    THEN {<<"", "notification channels not configured">>,
          <<"Channel '" \o Join(SubSeq(name, Len(NotifyColon) + 1, Len(name)))
              \o "' not found", "">>}
         \cup HandlerReturns
  ELSE IF name \in FsToolBuilders
    THEN {<<"", "no filesystem roots configured for tool \"" \o Join(name) \o "\"">>}
         \cup HandlerReturns
  ELSE RegistryExecute(name)

\* ---- the tools an agent is offered and the tools a call can run

\* the notification channels the store holds, by name
StoredChannels == {<<"a">>, <<"b">>}

\* an agent's configuration: enabled_tools (a name nothing is registered under
\* among them), the enabled notification channels, and the fs tools its
\* filesystem roots enable
AgentToolConfigs ==
  [tools : SUBSET {<<"b", "a", "s", "h">>, <<"f", "e", "t", "c", "h", "_", "u", "r", "l">>,
                   <<"z", "z">>},
   channels : SUBSET StoredChannels,
   fsTools : SUBSET {<<"f", "s", "_", "v", "i", "e", "w">>,
                     <<"f", "s", "_", "c", "r", "e", "a", "t", "e">>, <<"z", "z">>}]

\* GetToolsForAgent: the API names of the definitions sent with the request:
\* Registry.List(enabledTools), one notify tool per enabled channel, and each
\* fs tool that has at least one root
GetToolsForAgent(cfg) ==
  (cfg.tools \cap StaticToolNames)
    \cup {EncodeToolName(NotifyToolName(c)) : c \in cfg.channels}
    \cup (cfg.fsTools \cap FsToolBuilders)

\* the tools the context of the turn carries roots for (WithFSToolRoots)
FSToolRoots(cfg) == cfg.fsTools \cap FsToolBuilders

\* executeTool(ctx, name, args): the tool whose Handler it calls, <<>> when it
\* returns without calling one
ExecuteToolRuns(cfg, name) ==
  IF HasPrefix(name, NotifyColon)
    THEN IF SubSeq(name, Len(NotifyColon) + 1, Len(name)) \in StoredChannels
           THEN name ELSE <<>>
  ELSE IF name \in FsToolBuilders
    THEN IF name \in FSToolRoots(cfg) THEN name ELSE <<>>
  ELSE IF name \in StaticToolNames THEN name ELSE <<>>

\* the API names a function call of the model may carry
DispatchCallNames ==
  {EncodeToolName(NotifyToolName(c)) : c \in StoredChannels \cup {<<"c">>}}
    \cup {<<"b", "a", "s", "h">>, <<"f", "e", "t", "c", "h", "_", "u", "r", "l">>,
          <<"f", "s", "_", "v", "i", "e", "w">>,
          <<"f", "s", "_", "c", "r", "e", "a", "t", "e">>, <<"z", "z">>}

DispatchInit ==
  /\ fs \in {FsWith([n \in FsNames |-> [kind |-> "none", target |-> <<>>]])}
  /\ fsCalls = 0
  /\ fsTool = ""
  /\ fsRoot = RootDir
  /\ fsArg = [abs |-> FALSE, comps |-> <<>>]
  /\ fsErr = ""
  /\ fsRead = {}
  /\ fsWrote = {}
  /\ fcpc = [w \in Creators |-> "none"]
  /\ fcPath = [w \in Creators |-> <<>>]
  /\ fcRet = [w \in Creators |-> ""]
  /\ fsText = EmptyMap
  /\ view = NoView
  /\ dispatch \in [pc : {"turn"}, cfg : AgentToolConfigs, offered : {{}},
                    name : {<<>>}, ran : {<<>>}]
  /\ bk = NoBk
  /\ tsvc = NoTsvc

DispatchFrame ==
  /\ UNCHANGED <<fs, fcpc, fcPath, fcRet, fsText, view, bk, tsvc>>
  /\ UNCHANGED <<brokerVars, storeVars, runVars, chatVars, nameVars, agentVars, subVars,
                 schedVars, fsCalls, fsTool, fsRoot, fsArg, fsErr, fsRead, fsWrote>>

\* the turn builds its request: the tools of the agent
TurnGetTools ==
  /\ dispatch.pc = "turn"
  /\ dispatch' = [dispatch EXCEPT !.pc = "offered", !.offered = GetToolsForAgent(dispatch.cfg)]
  /\ DispatchFrame

\* a worker of ProcessOutput for a function call named callName:
\* `internalName := DecodeToolName(call.Name)`, then executeTool
TurnExecuteTool(callName) ==
  /\ dispatch.pc = "offered"
  /\ dispatch' = [dispatch EXCEPT
                    !.pc = "executed",
                    !.name = DecodeToolName(callName),
                    !.ran = ExecuteToolRuns(dispatch.cfg, DecodeToolName(callName))]
  /\ DispatchFrame

DispatchNext ==
  \/ TurnGetTools
  \/ \E callName \in DispatchCallNames : TurnExecuteTool(callName)

\* the API names the drawn function calls carry: a notification tool, an fs
\* tool, a registry tool, and a name nothing is registered under
ExecCallNames == {
  EncodeToolName(NotifyToolName(<<"a">>)),
  <<"f", "s", "_", "v", "i", "e", "w">>,
  <<"b", "a", "s", "h">>,
  <<"z", "z">>
}

\* the function_call items of a response whose calls carry the names ns
NamedCalls(ns) ==
  [i \in 1..Len(ns) |-> [callID |-> "call" \o ToString(i), name |-> ns[i]]]

ExecCallLists ==
  UNION {{NamedCalls(ns) : ns \in [1..n -> ExecCallNames]} : n \in 1..MaxCalls}

\* the turn at the call of ProcessOutput on the first response of its first
\* round: Run has created the conversation and saved the prompt, the stream
\* has delivered a response with the function calls `calls` and no text
ExecAt(callLists) ==
  /\ rpc = "loop_process"
  /\ opts = [depth |-> 0, prompt |-> "p", title |-> "", agentExists |-> TRUE]
  /\ conv = [id |-> 1, title |-> ""]
  /\ busy = {1}
  /\ muWriter = {}
  /\ muReaders = {}
  /\ bpc = [t \in Threads |-> "idle"]
  /\ bconv = [t \in Threads |-> 1]
  /\ bfound = [t \in Threads |-> FALSE]
  /\ bret = [t \in Threads |-> FALSE]
  /\ holders = [c \in Topics |-> {}]
  /\ conversations = (1 :> [title |-> "", prev |-> "", updatedAt |-> 0])
  /\ messages = {[id |-> 2, conv |-> 1, role |-> "user",
                  items |-> MarshalItems(<<TextItem("p")>>)]}
  /\ nextId = 2
  /\ published = <<TurnStarted, MessageDone(2, "user", MarshalItems(<<TextItem("p")>>))>>
  /\ ctxCancelled = FALSE
  /\ runErr = ""
  /\ round = 1
  /\ currentText = ""
  /\ responseID = "r1"
  /\ priorItems = <<>>
  /\ items = <<>>
  /\ title = ""
  /\ toolCalls \in callLists
  /\ running = DOMAIN toolCalls
  /\ ch = <<>>
  /\ collected = 0
  /\ outputInputs = [i \in DOMAIN toolCalls |-> NoInput]
  /\ inputs = CallEchoes(toolCalls)
  /\ results = [i \in DOMAIN toolCalls |-> ""]
  /\ returned = [i \in DOMAIN toolCalls |-> NoReturn]
  /\ completed = <<>>
  /\ ppc = "abandoned"
  /\ offer = NoEvent
  /\ event = NoEvent
  /\ eventsClosed = FALSE
  /\ errsBuf = ""
  /\ errsClosed = FALSE
  /\ sent = 1
  /\ setCount = 1
  /\ clearCount = 0
  /\ errReported = FALSE
  /\ cancelInStream = FALSE

ExecInit == ExecAt(ExecCallLists)

\* worker i: `internalName := DecodeToolName(call.Name)`, executeTool, deliver
ExecWorker(i) ==
  /\ i \in running
  /\ \E ret \in ExecuteTool(DecodeToolName(toolCalls[i].name)) : WorkerDeliver(i, ret)

ExecNext ==
  \/ \E i \in 1..MaxCalls : ExecWorker(i)
  \/ CollectResult
  \/ ProcessOutputReturn

\* =====================================================================
\* specifications and properties
\* =====================================================================

\* the subsystems of restVars at rest
RestIdle == AgentIdle /\ SubsIdle /\ SchedIdle /\ FsIdle

InitRun == BrokerInit /\ StoreInit /\ RunInit /\ ChatIdle /\ NamesIdle /\ RestIdle

SpecRun == InitRun /\ [][RunNext]_vars

InitChat == BrokerInit /\ ChatStoreInit /\ RunIdle /\ ChatInit /\ NamesIdle /\ RestIdle

SpecChat == InitChat /\ [][ChatNext]_vars

InitNames == BrokerInit /\ StoreInit /\ RunIdle /\ ChatIdle /\ NamesInit /\ RestIdle

SpecNames == InitNames /\ [][NamesNext]_vars

InitBroker == BrokerInit /\ StoreInit /\ RunIdle /\ ChatIdle /\ NamesIdle /\ RestIdle

InitAgents ==
  /\ BrokerInit /\ StoreInit /\ RunIdle /\ ChatIdle /\ NamesIdle
  /\ AgentInit /\ SubsIdle /\ SchedIdle /\ FsIdle

InitSubs ==
  /\ BrokerInit /\ StoreInit /\ RunIdle /\ ChatIdle /\ NamesIdle
  /\ AgentIdle /\ SubsInit /\ SchedIdle /\ FsIdle

InitSched ==
  /\ BrokerInit /\ StoreInit /\ RunIdle /\ ChatIdle /\ NamesIdle
  /\ AgentIdle /\ SubsIdle /\ SchedInit /\ FsIdle

\* the goroutines keep running: every step of run and of Stop that stays
\* possible is taken, a select whose stop case stays ready takes it, and
\* every Runner.Run returns
SchedFairness ==
  /\ WF_vars(SchedSync)
  /\ WF_vars(SchedSelectStop)
  /\ WF_vars(ExecCreateTriggerRun)
  /\ WF_vars(ExecRunReturns)
  /\ WF_vars(ExecUpdateTriggerRun)
  /\ WF_vars(ExecUpdateNextRun)
  /\ WF_vars(ExecDeleteTrigger)
  /\ WF_vars(MainStopWait)

SpecSched == InitSched /\ [][SchedNext]_vars /\ SchedFairness

InitFs ==
  /\ BrokerInit /\ StoreInit /\ RunIdle /\ ChatIdle /\ NamesIdle
  /\ AgentIdle /\ SubsIdle /\ SchedIdle /\ FsInit

SpecFs == InitFs /\ [][FsNext]_vars

InitTick ==
  /\ BrokerInit /\ StoreInit /\ RunIdle /\ ChatIdle /\ NamesIdle
  /\ AgentIdle /\ SubsIdle /\ TickInit /\ FsIdle

SpecTick == InitTick /\ [][TickNext]_vars

InitSync ==
  /\ BrokerInit /\ StoreInit /\ RunIdle /\ ChatIdle /\ NamesIdle
  /\ AgentIdle /\ SubsIdle /\ SyncInit /\ FsIdle

SpecSync == InitSync /\ [][SyncNext]_vars

InitCreate ==
  /\ BrokerInit /\ StoreInit /\ RunIdle /\ ChatIdle /\ NamesIdle
  /\ AgentIdle /\ SubsIdle /\ SchedIdle /\ CreateInit

SpecCreate == InitCreate /\ [][CreateNext]_vars

InitView ==
  /\ BrokerInit /\ StoreInit /\ RunIdle /\ ChatIdle /\ NamesIdle
  /\ AgentIdle /\ SubsIdle /\ SchedIdle /\ ViewInit

SpecView == InitView /\ [][ViewNext]_vars

InitTrig ==
  /\ BrokerInit /\ StoreInit /\ RunIdle /\ ChatIdle /\ NamesIdle
  /\ AgentIdle /\ SubsIdle /\ SchedIdle /\ TrigInit

SpecTrig == InitTrig /\ [][TrigNext]_vars

InitPub ==
  /\ BrokerInit /\ StoreInit /\ RunIdle /\ ChatIdle /\ NamesIdle
  /\ AgentIdle /\ PubInit /\ SchedIdle /\ FsIdle

SpecPub == InitPub /\ [][PubNext]_vars

InitDispatch ==
  /\ BrokerInit /\ StoreInit /\ RunIdle /\ ChatIdle /\ NamesIdle
  /\ AgentIdle /\ SubsIdle /\ SchedIdle /\ DispatchInit

SpecDispatch == InitDispatch /\ [][DispatchNext]_vars

InitExec == ExecInit /\ ChatIdle /\ NamesIdle /\ RestIdle

\* every handler returns, and the goroutines of ProcessOutput are scheduled
ExecFairness ==
  /\ \A i \in 1..MaxCalls : WF_vars(ExecWorker(i))
  /\ WF_vars(CollectResult)
  /\ WF_vars(ProcessOutputReturn)

SpecExec == InitExec /\ [][ExecNext]_vars /\ ExecFairness

SpecSubs == InitSubs /\ [][SubsNext]_vars

SpecAgents == InitAgents /\ [][AgentNext]_vars

SpecBroker == InitBroker /\ [][BrokerNext]_vars

\* C1: SetBusy(C) returns true iff C was not in the busy set at the step that
\* decides its result, and for every topic at most one goroutine holds a true
\* SetBusy that no ClearBusy of that topic has followed.
C1_SingleTurnExclusivity ==
  /\ [](\A c \in Topics : Cardinality(holders[c]) <= 1)
  /\ [][\A t \in Threads :
         (bpc[t] = "sb_decide" /\ bpc'[t] = "sb_unlock")
           => (bret'[t] <=> bconv[t] \notin busy)]_vars

\* one goroutine holds topic c while another's SetBusy(c) has just returned false
C1_Witness ==
  \E t1 \in Threads, t2 \in Threads :
    /\ t1 # t2
    /\ holders[bconv[t2]] = {t1}
    /\ bpc[t2] = "sb_unlock"
    /\ bret[t2] = FALSE

\* ---- the turn of Runner.Run (SpecRun)

Last(seq) == seq[Len(seq)]
TypeAt(i) == published[i].type
RunReturned == rpc = "returned"
\* the turn has stored an assistant message
AssistantStored == \E m \in messages : m.role = "assistant"
\* the errors Run returns before it calls RunTurn
RunOwnErrors == {"max depth exceeded", "get agent", "create conversation",
                 "save user message"}
\* RunTurn has returned a non-nil error
RunTurnFailed == rpc \in {"turn_defer", "returned"} /\ runErr \notin ({""} \cup RunOwnErrors)
\* the turn's last two events are Error, TurnDone{}
EndsWithErrorPair ==
  /\ Len(published) >= 2
  /\ TypeAt(Len(published) - 1) = "Error"
  /\ Last(published) = TurnDone("")

\* C2: a Run that marked its conversation busy has cleared it exactly once when
\* it returns, whatever the exit path, and never clears it more often than it
\* marked it; after the return the conversation is not in the busy set.
C2_BusyClearedOnce ==
  /\ clearCount <= setCount
  /\ RunReturned => (clearCount = setCount /\ conv.id \notin busy)
C2_Witness ==
  /\ RunReturned /\ setCount = 1 /\ clearCount = 1
  /\ cancelInStream /\ conv.id \notin busy

\* C3: the events of a finished turn match
\* TurnStarted (TextDelta|ToolResult)* (MessageDone (TextDelta|ToolResult)*)*
\* (Error? TurnDone), and no TextDelta or ToolResult follows the assistant
\* MessageDone.
C3_TraceMatchesRegex ==
  (RunReturned /\ published # <<>>) =>
    /\ Len(published) >= 2
    /\ TypeAt(1) = "TurnStarted"
    /\ Last(published).type = "TurnDone"
    /\ \A i \in 2..(Len(published) - 1) :
         \/ TypeAt(i) \in {"TextDelta", "ToolResult", "MessageDone"}
         \/ i = Len(published) - 1 /\ TypeAt(i) = "Error"
    /\ \A i \in DOMAIN published, j \in DOMAIN published :
         (TypeAt(i) = "MessageDone" /\ published[i].role = "assistant" /\ i < j)
           => TypeAt(j) \notin {"TextDelta", "ToolResult"}

\* C4: no event of the turn follows a TurnDone, and a Run that published
\* TurnStarted has published TurnDone as its last event when it returns.
C4_TurnDoneLast ==
  /\ \A i \in 1..(Len(published) - 1) : TypeAt(i) # "TurnDone"
  /\ (RunReturned /\ published # <<>>) => Last(published).type = "TurnDone"

\* C5: an Error event is followed at once by TurnDone with an empty title (the
\* only point at which Error is the last event is RunTurn about to publish that
\* TurnDone), and when RunTurn has returned a non-nil error the turn's one Error
\* event carries that error and is followed by TurnDone{} as the last event.
C5_ErrorThenTurnDone ==
  /\ \A i \in DOMAIN published :
       TypeAt(i) = "Error" =>
         IF i < Len(published) THEN published[i + 1] = TurnDone("")
                               ELSE rpc = "turn_pubdone"
  /\ RunTurnFailed =>
       /\ EndsWithErrorPair
       /\ published[Len(published) - 1] = Error(runErr)
       /\ Cardinality({i \in DOMAIN published : TypeAt(i) = "Error"}) = 1
C5_Witness ==
  /\ RunReturned /\ RunTurnFailed
  /\ EndsWithErrorPair
  /\ \E i \in DOMAIN published : TypeAt(i) = "TextDelta"

\* C6: when the stream producer has put an error on the error channel, the
\* finished turn has returned an error, ends with Error, TurnDone{} and has
\* stored no assistant message.
C6_ProducerErrorAbortsTurn ==
  (RunReturned /\ errReported) =>
    /\ runErr # ""
    /\ EndsWithErrorPair
    /\ ~AssistantStored

\* C7: when the context was cancelled while runLoop was consuming a stream, the
\* finished turn ends with Error, TurnDone{}, has stored no assistant message
\* and has cleared the busy flag.
C7_CancelAbortsTurn ==
  (RunReturned /\ cancelInStream) =>
    /\ EndsWithErrorPair
    /\ ~AssistantStored
    /\ conv.id \notin busy

\* C8: every published MessageDone names a stored message row with the same id,
\* role and items, and a turn whose CreateMessage failed has published no
\* MessageDone for that message.
C8_MessageDoneHasRow ==
  /\ \A i \in DOMAIN published :
       TypeAt(i) = "MessageDone" =>
         \E m \in messages :
           /\ m.id = published[i].msgId
           /\ m.role = published[i].role
           /\ m.items = published[i].itemsJSON
  /\ rpc = "run_saveclear" =>
       \A i \in DOMAIN published : TypeAt(i) # "MessageDone"
  /\ runErr = "create assistant message" =>
       \A i \in DOMAIN published :
         TypeAt(i) = "MessageDone" => published[i].role = "user"
C8_Witness ==
  \E i \in DOMAIN published, j \in DOMAIN published :
    /\ i < j
    /\ TypeAt(i) = "MessageDone" /\ published[i].role = "user"
    /\ TypeAt(j) = "MessageDone" /\ published[j].role = "assistant"
    /\ \E k \in DOMAIN published[j].itemsJSON :
         <<"type", "tool_execution">> \in published[j].itemsJSON[k]

\* ---- concurrent Chat handlers (SpecChat)

\* C9: no step changes a stored conversation title from a non-empty value to
\* the empty string.
C9_TitleNeverCleared ==
  [][\A id \in DOMAIN conversations :
       conversations[id].title # "" => conversations'[id].title # ""]_vars

\* ---- tool names (SpecNames)

\* C10: the name the Executor decodes from the API name of a registered tool
\* is the tool's name: DecodeToolName(EncodeToolName(n)) = n.
C10_DecodeInvertsEncode ==
  npc = "executor" => internalName = toolName

\* ---- Executor.ProcessOutput (SpecRun)

\* ProcessOutput has returned the list for the calls in toolCalls
ProcessOutputReturned == toolCalls # <<>> /\ Len(inputs) = 2 * Len(toolCalls)

\* C11: the list ProcessOutput returns holds the function_call echoes in call
\* order, then one function_call_output per call, the one at position n+i
\* carrying the call_id and the worker's output of call i, whatever the order in
\* which the workers finished.
C11_OutputsInCallOrder ==
  ProcessOutputReturned =>
    LET n == Len(toolCalls) IN
      /\ \A i \in 1..n :
           /\ inputs[i] = Input("function_call", toolCalls[i].callID, toolCalls[i].name, "")
           /\ inputs[n + i] = Input("function_call_output", toolCalls[i].callID, <<>>,
                                    results[i])
           /\ Cardinality({j \in DOMAIN inputs :
                             /\ inputs[j].type = "function_call_output"
                             /\ inputs[j].callID = toolCalls[i].callID}) = 1
C11_Witness ==
  /\ ProcessOutputReturned
  /\ Len(toolCalls) = 2
  /\ results[1] # results[2]
  /\ \E k \in 1..(Len(items) - 1) :
       items[k].callID = "call2" /\ items[k + 1].callID = "call1"

\* ---- nested call_agent runs (SpecAgents)

\* C12: every turn that runs, and every conversation created, has depth at
\* most DefaultMaxDepth (5); a Run started by call_agent has the depth of the
\* calling turn plus one; a call_agent whose new depth would exceed the limit
\* yields a result containing "max agent depth exceeded" without starting a
\* Run or creating a conversation; and Run with a depth over the limit returns
\* without creating a conversation.
C12_DepthBounded ==
  /\ [](/\ \A k \in DOMAIN astack :
             /\ astack[k].pc \in {"turn", "calling"} => astack[k].depth <= DefaultMaxDepth
             /\ k > 1 => astack[k].depth = astack[k - 1].depth + 1
        /\ \A k \in DOMAIN aconvs : aconvs[k] <= DefaultMaxDepth)
  /\ [][/\ (AgentAtTop("turn") /\ acalls' # acalls /\ TopRun.depth + 1 > DefaultMaxDepth)
             => /\ aresult' = "Error: max agent depth exceeded"
                /\ astack' = astack /\ aconvs' = aconvs
        /\ (AgentAtTop("run_depth") /\ TopRun.depth > DefaultMaxDepth)
             => /\ aconvs' = aconvs
                /\ Len(astack') = Len(astack) - 1]_vars
C12_Witness ==
  /\ Len(astack) = DefaultMaxDepth + 1
  /\ Len(aconvs) = DefaultMaxDepth + 1
  /\ acalls = DefaultMaxDepth + 1
  /\ aresult = "Error: max agent depth exceeded"

\* ---- Broker subscriptions (SpecSubs)

\* the position in w of event e, when w holds consecutive events of one topic
PositionIn(w, e) == IF w = <<>> THEN 0 ELSE e.seq - w[1].seq + 1
\* a is w with some elements left out: each element of a is in w, further to
\* the right than the element before it
IsSubseq(a, w) ==
  \A i \in DOMAIN a :
    LET pos == PositionIn(w, a[i])
    IN /\ pos \in DOMAIN w
       /\ w[pos] = a[i]
       /\ i > 1 => PositionIn(w, a[i - 1]) < pos

\* the step is a Publish to topic t
PublishStep(t) == pubCount'[t] = pubCount[t] + 1

\* C13: Publish is never blocked by a subscriber's mailbox; a Publish to a
\* topic appends the event to the mailbox of each of the topic's subscribers
\* that holds fewer than 256 events and leaves a full mailbox as it is, each
\* subscriber decided on its own; no mailbox ever holds more than 256 events.
C13_PublishNonBlockingLossy ==
  /\ [](\A s \in Subs : Len(mailbox[s]) <= 256)
  /\ []((~Panicked /\ scalls < MaxSubCalls) => \A t \in Topics : ENABLED BrokerPublish(t))
  /\ [][\A t \in Topics : PublishStep(t) =>
          \A s \in Subs :
            mailbox'[s] =
              IF Subscribed(s) /\ stopic[s] = t /\ Len(mailbox[s]) < 256
                THEN Append(mailbox[s], Ev(t, pubCount[t] + 1))
                ELSE mailbox[s]]_vars
C13_Witness ==
  \E s1 \in Subs, s2 \in Subs :
    /\ s1 # s2 /\ Subscribed(s1) /\ Subscribed(s2) /\ stopic[s1] = stopic[s2]
    /\ Len(mailbox[s1]) = 256 /\ received[s1] = <<>>
    /\ window[s1] # <<>> /\ window[s2] # <<>>
    /\ Last(window[s1]) # Last(mailbox[s1])
    /\ Last(window[s1]) = Last(mailbox[s2])

\* C14: what a subscription's consumer has received, followed by what its
\* mailbox holds, is a subsequence in publish order of the events published to
\* its topic while it was subscribed, and holds no event of another topic.
C14_OrderedSubsequence ==
  \A s \in Subs :
    /\ IsSubseq(received[s] \o mailbox[s], window[s])
    /\ \A i \in DOMAIN window[s] :
         /\ window[s][i].topic = stopic[s]
         /\ i > 1 => window[s][i].seq > window[s][i - 1].seq
C14_Witness ==
  \E s \in Subs, t \in Topics :
    /\ t # stopic[s] /\ pubCount[t] > 0
    /\ received[s] # <<>> /\ mailbox[s] # <<>>
    /\ Len(received[s]) + Len(mailbox[s]) < Len(window[s])
    /\ Last(mailbox[s]) = Last(window[s])
    /\ \E i \in DOMAIN window[s] : window[s][i].seq > Last(received[s]).seq
                                    /\ window[s][i].seq < Last(mailbox[s]).seq
                                    /\ \A j \in DOMAIN mailbox[s] : mailbox[s][j] # window[s][i]

\* C15: a subscription that an Unsubscribe call has returned for is in no
\* topic's subscriber set and its channel has been closed, and no
\* subscription's channel is closed more than once.
C15_ClosedExactlyOnce ==
  \A s \in Subs :
    /\ closes[s] <= 1
    /\ (ucalls[s] > closing[s]) => (closes[s] = 1 /\ \A t \in Topics : s \notin subs[t])

\* the executeTrigger call for the head of `due` returns nil in this step
ExecuteTriggerReturns == spc = "next" /\ due' # due

\* the trigger_runs rows of trigger t that this tick's execution created, as
\* they are after the step
NewRunsAfter(t) == {r \in triggerRuns' : r.trigger = t /\ r.id = runID}

\* C16: at a tick every enabled trigger with next_run_at <= now is taken up,
\* and once it has been executed it has exactly one new trigger_runs row, with
\* status completed or failed (stated for the executions in which no store
\* call has failed).
C16_DueTriggerGetsOneTerminalRun ==
  [][/\ (spc = "select" /\ spc' # "exited" /\ tickPending /\ ~tickPending' /\ sfails' = 0
           => {due'[i].id : i \in DOMAIN due'} = DueTriggers)
     /\ (ExecuteTriggerReturns /\ sfails' = 0
           => /\ Cardinality(NewRunsAfter(Head(due).id)) = 1
              /\ \A r \in NewRunsAfter(Head(due).id) : r.status \in {"completed", "failed"})]_vars

\* C17: once the scheduler has executed a trigger without a cron expression,
\* whatever the run's outcome, the triggers table has no row for it.
C17_OneShotDeleted ==
  [][ExecuteTriggerReturns /\ Head(due).cron = 0 => ~triggers'[Head(due).id].present]_vars

\* C18: once the scheduler has executed a cron trigger whose run started at
\* t, the next_run_at it persisted is later than t and is the first occurrence
\* of the expression after t, however long the run took.
C18_NextRunFromRunStart ==
  [][ExecuteTriggerReturns /\ Head(due).cron > 0 /\ sfails' = sfails
       => /\ triggers'[Head(due).id].nextRun > startedAt
          /\ triggers'[Head(due).id].nextRun = ScheduleNext(Head(due).cron, startedAt)]_vars

\* Stop has returned to main.run
StopReturned == mpc \in {"stopped", "exited"}

Below(p, r) == Len(p) >= Len(r) /\ SubSeq(p, 1, Len(r)) = r

\* C20: whatever the root path, the path argument and the symlinks inside the
\* root, every entry a filesystem tool call read, created or wrote is the
\* resolved root or lies below it, and a call with an absolute path or a path
\* whose cleaned form starts with ".." returns an error and writes nothing.
C20_PathConfinement ==
  fsCalls > 0 =>
    /\ \A p \in fsRead \cup fsWrote : Below(p, RootDir)
    /\ (fsArg.abs \/ Traversal(Clean(fsArg.comps))) => fsErr # "" /\ fsWrote = {}

\* the worker of call i has delivered its output
Delivered(i) == i \in DOMAIN toolCalls /\ i \notin running

\* no branch of executeTool knows the name
Unregistered(name) == ~HasPrefix(name, NotifyColon) /\ name \notin StaticToolNames

ChatStreaming(c) == cpc[c] \in {"stream", "fin_start", "fin_title", "fin_update", "fin_send"}

\* C22: a Chat call on a conversation that has a turn in flight is rejected
\* with a precondition-failed error: it opens no LLM stream and persists no
\* assistant message, so no two handlers are ever past the gate on the one
\* conversation.
C22_BusyChatRejected ==
  \A c, d \in Chats : c # d => ~(ChatStreaming(c) /\ ChatStreaming(d))

\* ---- concurrent fs_create (SpecCreate)

\* C23: fs_create never modifies an existing file, also when two fs_create
\* calls for the same path run concurrently as workers of one ProcessOutput:
\* at most one of them reports success, the file then holds that call's text,
\* and no write lands on a file that existed before it.
C23_CreateNeverOverwrites ==
  /\ Cardinality({w \in Creators : fcRet[w] = CreateSuccess}) <= 1
  /\ \A w \in Creators :
       (fcRet[w] = CreateSuccess /\ \A v \in Creators : fcpc[v] = "done")
         => \A p \in DOMAIN fsText : fsText[p] = FileText(w)

\* ---- the persisted items against the published events (SpecRun)

\* the items the events es spell, read in order: each run of TextDelta events
\* is one text item holding their contents, each ToolResult one tool
\* execution; `text` is the run read so far
RECURSIVE EmittedItems(_, _)
EmittedItems(es, text) ==
  IF es = <<>> THEN (IF text # "" THEN <<[type |-> "text", text |-> text]>> ELSE <<>>)
  ELSE LET e == Head(es)
       IN CASE e.type = "TextDelta" -> EmittedItems(Tail(es), text \o e.text)
            [] e.type = "ToolResult" ->
                 (IF text # "" THEN <<[type |-> "text", text |-> text]>> ELSE <<>>)
                   \o <<[type |-> "tool_execution", name |-> e.name, result |-> e.text]>>
                   \o EmittedItems(Tail(es), "")
            [] OTHER -> EmittedItems(Tail(es), text)

\* a stored item as its JSON object reads, the call id left out
StoredItemRead(json) ==
  LET field(k) == {kv[2] : kv \in {x \in json : x[1] = k}}
      type == CHOOSE t \in field("type") : TRUE
  IN IF type = "text"
       THEN [type |-> "text",
             text |-> IF field("text") = {} THEN "" ELSE CHOOSE t \in field("text") : TRUE]
       ELSE [type |-> type,
             name |-> IF field("name") = {} THEN <<>> ELSE CHOOSE t \in field("name") : TRUE,
             result |-> IF field("result") = {} THEN ""
                        ELSE CHOOSE t \in field("result") : TRUE]

\* the contents of the TextDelta events of es, concatenated
RECURSIVE DeltaText(_)
DeltaText(es) ==
  IF es = <<>> THEN ""
  ELSE (IF Head(es).type = "TextDelta" THEN Head(es).text ELSE "") \o DeltaText(Tail(es))

\* the texts of the text items of the stored items, concatenated
RECURSIVE ItemsText(_)
ItemsText(its) ==
  IF its = <<>> THEN ""
  ELSE (IF its[1].type = "text" THEN its[1].text ELSE "") \o ItemsText(Tail(its))

AssistantMessages == {m \in messages : m.role = "assistant"}

\* C24: the items of the persisted assistant message are the turn's emission
\* sequence: per round the text item, if the round's text is not empty, then
\* the round's tool executions in completion order; the texts of its text
\* items concatenate to the contents of all TextDelta events of the turn.
C24_ItemsAreEmissionSequence ==
  \A m \in AssistantMessages :
    LET stored == [i \in DOMAIN m.items |-> StoredItemRead(m.items[i])]
    IN /\ stored = EmittedItems(published, "")
       /\ ItemsText(stored) = DeltaText(published)

\* a message with the text of one round, a tool execution, and the text of
\* the next round
C24_Witness ==
  \E m \in AssistantMessages :
    /\ Len(m.items) = 3
    /\ StoredItemRead(m.items[1]).type = "text"
    /\ StoredItemRead(m.items[2]).type = "tool_execution"
    /\ StoredItemRead(m.items[3]).type = "text"

\* ---- finishTurn's conversation update

\* the turn has returned nil after persisting its assistant message
TurnPersisted ==
  /\ rpc \in {"fin_done", "turn_defer", "returned"}
  /\ runErr = ""
  /\ AssistantMessages # {}

\* C25: every turn that persists an assistant message also updates the
\* conversation row with updated_at = now, whether or not a response id was
\* captured or a title was generated.
C25_PersistingTurnUpdatesConversation ==
  TurnPersisted => conversations[conv.id].updatedAt > 0

\* C26: previous_response_id is only ever overwritten with a non-empty
\* response id: a turn whose stream delivered no response object leaves the
\* stored value unchanged, even when that turn generates a title.
C26_PrevOnlyOverwrittenByResponse ==
  [][\A id \in DOMAIN conversations :
       (id \in DOMAIN conversations' /\ conversations'[id].prev # conversations[id].prev)
         => conversations'[id].prev # ""]_vars

\* ---- the empty turn (SpecRun)

\* finishTurn has returned nil for a turn without items
EmptyTurnFinished ==
  /\ rpc \in {"turn_defer", "returned"}
  /\ round >= 1
  /\ runErr = ""
  /\ items = <<>>

\* C27: a turn whose stream ends with no text and no tool executions
\* publishes only TurnDone with an empty title: no assistant message is
\* persisted, no MessageDone for one is published, no title is generated and
\* the conversation row is not updated.
C27_EmptyTurnOnlyTurnDone ==
  EmptyTurnFinished =>
    /\ published = <<TurnStarted,
                     MessageDone(conv.id + 1, "user", MarshalItems(<<TextItem(opts.prompt)>>)),
                     TurnDone("")>>
    /\ AssistantMessages = {}
    /\ title = ""
    /\ conversations[conv.id] = [title |-> opts.title, prev |-> "", updatedAt |-> 0]

\* Run has returned from an empty turn
C27_Witness == EmptyTurnFinished /\ rpc = "returned"

\* ---- onResult and the ToolResult events (SpecRun)

\* the last n events published
LastPublished(n) == SubSeq(published, Len(published) - n + 1, Len(published))

\* the ToolResult event of the call whose worker was the k-th to complete
CompletedResult(k) ==
  ToolResult(DecodeToolName(toolCalls[completed[k]].name), results[completed[k]])

\* C28: ProcessOutput invokes onResult exactly once per function call, in the
\* order in which the workers complete, so the ToolResult events of a round
\* are published in completion order, and all of them precede any TextDelta
\* of the next round: while ProcessOutput runs, and when it has returned to
\* open the next round's stream, the newest events are the results collected
\* so far, in completion order.
C28_ResultsInCompletionOrder ==
  (rpc \in {"loop_process", "loop_open"} /\ toolCalls # <<>>) =>
    /\ collected <= Len(completed)
    /\ Len(published) >= collected
    /\ LastPublished(collected) = [k \in 1..collected |-> CompletedResult(k)]
    /\ \A k \in 1..collected :
         items[Len(items) - collected + k].callID = toolCalls[completed[k]].callID
    /\ rpc = "loop_open" =>
         /\ collected = Len(toolCalls)
         /\ \A i \in DOMAIN toolCalls :
              Cardinality({k \in DOMAIN completed : completed[k] = i}) = 1

\* the second call completed first, both results were published in that
\* order, and the next round has published a delta after them
C28_Witness ==
  /\ completed = <<2, 1>>
  /\ collected = 2
  /\ Len(published) >= 3
  /\ published[Len(published)].type = "TextDelta"
  /\ SubSeq(published, Len(published) - 2, Len(published) - 1)
       = <<CompletedResult(1), CompletedResult(2)>>

\* ---- ProcessOutput's goroutines (SpecExec)

\* C29: ProcessOutput returns only after every worker has delivered its
\* result, and no worker can remain blocked on the result channel: whenever a
\* worker is still to send, the channel has room; at the return every worker
\* has sent, every result has been received and the channel is empty.
\* Provided each handler returns, ProcessOutput terminates.
C29_ProcessOutputJoinsWorkers ==
  /\ [](rpc = "loop_process" /\ running # {} => ~SendBlocks)
  /\ []((rpc = "loop_open" /\ toolCalls # <<>>) =>
          /\ running = {}
          /\ ch = <<>>
          /\ collected = Len(toolCalls)
          /\ Len(completed) = Len(toolCalls))
  /\ (rpc = "loop_process" ~> rpc = "loop_open")

\* both workers have sent before the collector received anything
C29_Witness ==
  /\ rpc = "loop_process"
  /\ Len(toolCalls) >= 2
  /\ running = {}
  /\ Len(ch) = Len(toolCalls)

\* ---- one tick (SpecTick)

\* the step is tick's GetDueTriggers: only SchedSelectTick takes the tick
\* off the ticker's channel
TickTaken == tickPending /\ ~tickPending'

\* the ids of the snapshot q
DueIds(q) == {q[i].id : i \in DOMAIN q}

\* C30: within one tick the scheduler executes the due triggers one at a
\* time in ascending next_run_at order: the tick's list holds every due
\* trigger once, sorted; a tick is taken only when the previous one has
\* executed its whole list; a run starts only for the head of the list and
\* after the previous executeTrigger has returned; the list loses its head
\* only by a return of executeTrigger, with or without an error, and the
\* goroutine goes back to the select only when the list is empty.
C30_TickRunsDueTriggersInOrder ==
  /\ [][TickTaken =>
          /\ spc = "select" /\ due = <<>> /\ runID = 0
          /\ \A i, j \in DOMAIN due' :
               i < j => /\ due'[i].id # due'[j].id
                        /\ triggers[due'[i].id].nextRun <= triggers[due'[j].id].nextRun
          /\ \/ DueIds(due') = DueTriggers
             \/ due' = <<>> /\ sfails' = sfails + 1]_vars
  /\ [][(spc # "run" /\ spc' = "run") =>
          /\ spc = "create" /\ runID = 0
          /\ due' = due
          /\ triggerRuns' \ triggerRuns =
               {[id |-> runID', trigger |-> Head(due).id, status |-> "running"]}]_vars
  /\ [][(due' # due /\ ~TickTaken) =>
          /\ spc \in {"create", "next"}
          /\ due' = Tail(due)]_vars
  /\ [](spc \in {"create", "run", "update", "next"} <=> due # <<>>)

\* executeTrigger failed for the trigger with the earlier next_run_at, and
\* the tick is running the trigger after it
C30_Witness ==
  /\ spc = "run"
  /\ sfails = 1
  /\ Len(due) = 1
  /\ \A r \in triggerRuns : r.trigger = Head(due).id
  /\ \E t \in DueTriggers :
       /\ t # Head(due).id
       /\ triggers[t].nextRun < triggers[Head(due).id].nextRun

\* ---------------------------------------------------------------------
\* C31
\* ---------------------------------------------------------------------

\* syncCronTriggers has returned and the goroutine goes on to its ticker
SyncReturns == spc = "sync" /\ spc' = "select"

\* C31: when the scheduler starts, syncCronTriggers leaves every trigger
\* whose cron expression parses with next_run_at at the first occurrence
\* strictly after the start time, and every other row (no expression, or an
\* expression that does not parse) as it was
C31_SyncSetsEveryCronNextRun ==
  [][SyncReturns =>
       \A t \in Triggers :
         IF t \in CronTriggers
           THEN triggers'[t] = [triggers[t] EXCEPT
                                  !.nextRun = ScheduleNext(triggers[t].cron, now)]
           ELSE triggers'[t] = triggers[t]]_vars

\* the rows without a parseable expression are left alone by the sync, also
\* next to a row whose expression does not parse (this part holds)
SyncKeepsOtherRows ==
  [][SyncReturns => \A t \in Triggers \ CronTriggers : triggers'[t] = triggers[t]]_vars

\* ---------------------------------------------------------------------
\* C38
\* ---------------------------------------------------------------------

\* executeTrigger returns, with an error or with nil, for the trigger at the head of the due list
ExecuteTriggerLeaves ==
  /\ spc \in {"create", "next"}
  /\ spc' \in {"create", "select"}
  /\ due' = Tail(due)

\* C38: when executeTrigger returns for a trigger, on whichever path, the
\* trigger's row is gone or its next_run_at is strictly after the current
\* time, so that the next tick does not select it again for this occurrence
C38_ExecutedTriggerNotDueAgain ==
  [][ExecuteTriggerLeaves =>
       \/ ~triggers'[Head(due).id].present
       \/ triggers'[Head(due).id].nextRun > now']_vars

\* ---------------------------------------------------------------------
\* C35
\* ---------------------------------------------------------------------

\* the lines of the file the call read
ViewFileLines == Split(view.data)

\* the first and last line a view_range asks for, within the file
ViewFirst == IF view.range[1] < 1 THEN 1 ELSE view.range[1]
ViewLast ==
  IF view.range[2] > Len(ViewFileLines) THEN Len(ViewFileLines) ELSE view.range[2]

\* C35: for every file and every pair of integers given as view_range, the
\* fs_view handler returns: either an error value (always when start is past
\* the last line) or the lines start..min(end, n) numbered from start; no
\* pair makes it crash
C35_ViewRangeReturnsLinesOrError ==
  (view.out.kind # "none" /\ Len(view.range) = 2)
    => /\ view.out.kind \in {"ok", "error"}
       /\ ViewFirst > Len(ViewFileLines) => view.out.kind = "error"
       /\ view.out.kind = "ok" =>
            view.out.rows = Numbered(ViewFileLines, ViewFirst, ViewLast)

\* ---------------------------------------------------------------------
\* C37
\* ---------------------------------------------------------------------

\* C37: executeTool calls a tool's handler for a function call only if the
\* decoded name is one of the tools the agent was offered in the turn (an
\* enabled registry tool, the notify tool of an enabled channel, an fs tool
\* with a root); any other name returns without running a handler
C37_OnlyOfferedToolsRun ==
  (dispatch.pc = "executed" /\ dispatch.ran # <<>>)
    => EncodeToolName(dispatch.ran) \in dispatch.offered

\* the part of it that the context's roots enforce: an fs tool runs only when
\* it was offered (this part holds)
FsToolsRunOnlyWithRoots ==
  (dispatch.pc = "executed" /\ dispatch.ran \in FsToolBuilders)
    => dispatch.ran \in dispatch.offered

\* ---------------------------------------------------------------------
\* C39
\* ---------------------------------------------------------------------

\* a step in which onResult ran: the turn's item list or the published
\* events changed while ProcessOutput was running
OnResultRan == rpc = "loop_process" /\ (items' # items \/ published' # published)

\* C39: onResult is only ever invoked by the goroutine that called
\* ProcessOutput, one invocation after the other: every step that appends to
\* the turn's items or publishes a ToolResult is the collector's receive of
\* one result, it appends exactly one item and one event, and it is no step
\* of a worker (no worker starts, finishes or sends in it)
C39_OnResultOnlyOnCaller ==
  [][OnResultRan =>
       /\ collected' = collected + 1
       /\ ch' = Tail(ch)
       /\ running' = running /\ completed' = completed /\ returned' = returned
       /\ Len(items') = Len(items) + 1
       /\ Len(published') = Len(published) + 1]_vars

\* onResult has run for one call while another worker is still executing
C39_Witness ==
  /\ rpc = "loop_process"
  /\ collected >= 1
  /\ running # {}

\* ---------------------------------------------------------------------
\* C40
\* ---------------------------------------------------------------------

\* the tool executions among the items its
ToolExecutions(its) ==
  Cardinality({i \in DOMAIN its : its[i].type = "tool_execution"})

\* C40: in one round tool calls are executed for one response at most.  Once
\* an event's response carries function calls the loop is in ProcessOutput and
\* the round's stream is never read again; ProcessOutput's return leads only
\* to the next round, with each call of that response executed once; and the
\* only way on from there is a new stream.  While the loop still reads a
\* stream, no tool has been executed in that round.
C40_OneToolResponsePerRound ==
  /\ [](rpc = "loop_process" => ppc = "abandoned")
  /\ [](Consuming => ToolExecutions(items) = ToolExecutions(priorItems))
  /\ [][(rpc = "loop_process" /\ rpc' # "loop_process")
          => /\ rpc' = "loop_open"
             /\ ppc' = "abandoned"
             /\ round' = round
             /\ ToolExecutions(items') = ToolExecutions(priorItems) + Len(toolCalls)]_vars
  /\ [][(rpc = "loop_open" /\ rpc' # "loop_open")
          => /\ rpc' = "loop_select"
             /\ round' = round + 1
             /\ ppc' = "connect"]_vars

\* the first stream carried two events without text, the loop has executed
\* the function calls of one response and is about to open the next round
C40_Witness ==
  /\ rpc = "loop_open"
  /\ round = 1
  /\ toolCalls # <<>>
  /\ sent >= 2
  /\ currentText = ""

\* ---------------------------------------------------------------------
\* C36
\* ---------------------------------------------------------------------

\* C36: under every interleaving of Publish and Unsubscribe calls, Publish
\* never sends on a closed channel: a subscription's channel is closed only
\* after it has left the subscriber set, nobody closes a channel that a
\* Publish inside its range still has to visit, and a Publish in its range
\* holds the read lock with no Unsubscribe holding the write lock
C36_PublishNeverSendsOnClosed ==
  /\ ~bk.sentClosed
  /\ \A s \in Subs : closes[s] > 0 => \A t \in Topics : s \notin subs[t]
  /\ \A p \in Publishers :
       bk.pub[p].pc = "range" =>
         /\ p \in bk.readers
         /\ bk.writer = 0
         /\ \A s \in bk.pub[p].todo : closes[s] = 0

\* a Publish delivered to a subscription whose channel was closed afterwards,
\* while another Publish on its topic is inside its range
C36_Witness ==
  \E s \in Subs, p \in Publishers :
    /\ closes[s] = 1
    /\ mailbox[s] # <<>>
    /\ bk.pub[p].pc = "range"
    /\ bk.pub[p].topic = stopic[s]

\* ---------------------------------------------------------------------
\* C32, C33, C34 (SpecTrig)
\* ---------------------------------------------------------------------

\* the step is a call of the schedule_agent_run handler with arguments c
ScheduleStep == tsvc'.call.op = "schedule" /\ tsvc'.now = tsvc.now /\ tsvc' # tsvc

\* the agent the call is for: the argument, else the caller's agent
ScheduledAgent(c) == IF c.agent # "" THEN c.agent ELSE c.ctxAgent

\* the arguments pass every validation the claim names
ScheduleArgsValid(c) ==
  /\ c.prompt # ""
  /\ (c.delay # "") # (c.cron # "")
  /\ c.delay # "" => DurationParses(c.delay) /\ DurationHours(c.delay) > 0
  /\ c.cron # "" => CronParses(c.cron)
  /\ ScheduledAgent(c) # ""

\* C32: schedule_agent_run creates a trigger exactly when the prompt is not
\* empty, exactly one of delay (a positive duration) and cron (a parseable
\* expression) is given and an agent id is known from the argument or the
\* context; otherwise it returns an error and the table is unchanged.  The
\* trigger of a delay call has no cron expression and is due after the delay,
\* the trigger of a cron call carries the expression and is due at its next
\* occurrence.
C32_ScheduleCreatesOnlyValidTriggers ==
  [][ScheduleStep =>
       LET c == tsvc'.call
       IN IF ScheduleArgsValid(c)
            THEN /\ tsvc'.ret = ""
                 /\ Len(tsvc'.rows) = Len(tsvc.rows) + 1
                 /\ SubSeq(tsvc'.rows, 1, Len(tsvc.rows)) = tsvc.rows
                 /\ LET row == tsvc'.rows[Len(tsvc'.rows)]
                    IN /\ row.agent = ScheduledAgent(c)
                       /\ row.enabled
                       /\ row.cron = c.cron
                       /\ row.nextRunAt.valid
                       /\ Instant(row.nextRunAt) =
                            IF c.delay # "" THEN tsvc.now + DurationHours(c.delay)
                                            ELSE ScheduleNext(CronPeriod(c.cron), tsvc.now)
            ELSE /\ tsvc'.ret # ""
                 /\ tsvc'.rows = tsvc.rows]_vars

\* a delay call without an agent_id argument has created a one-shot trigger
\* for the caller's agent
C32_Witness ==
  /\ tsvc.call.op = "schedule"
  /\ tsvc.call.delay = "1h" /\ tsvc.call.agent = ""
  /\ tsvc.ret = ""
  /\ Len(tsvc.rows) = 1
  /\ tsvc.rows[1].agent = "a" /\ tsvc.rows[1].cron = ""

\* the request of the last Service.CreateTrigger call gave both a cron
\* expression and a delay, or neither
BothOrNeither(c) == (c.cron # "") = (c.delay # "")

\* C33: every trigger row is created with exactly one of cron and delay: a
\* Service.CreateTrigger request with both or with neither is rejected, and
\* every stored enabled trigger has a next_run_at, which for a cron trigger
\* is the first occurrence after the time of the creation or update
C33_ExactlyOneOfCronAndDelay ==
  /\ (tsvc.call.op = "service_create" /\ BothOrNeither(tsvc.call)) => tsvc.ret # ""
  /\ \A i \in DOMAIN tsvc.rows :
       LET row == tsvc.rows[i]
       IN /\ row.enabled => row.nextRunAt.valid
          /\ (row.cron # "" /\ row.nextRunAt.valid) =>
               Instant(row.nextRunAt) =
                 ScheduleNext(CronPeriod(row.cron), Instant(row.updatedAt))

\* a comparison of the instants the two strings denote
InstantLE(a, b) == Instant(a) <= Instant(b)

\* the rows of the table whose next-run instant is not after the current one
DueByInstant ==
  {i \in DOMAIN tsvc.rows :
     /\ tsvc.rows[i].enabled
     /\ tsvc.rows[i].nextRunAt.valid
     /\ Instant(tsvc.rows[i].nextRunAt) <= tsvc.now}

\* C34: every timestamp the scheduler and the creation paths persist, and the
\* bound tick passes to the due query, is an RFC3339 string in UTC, so the
\* query's string comparison selects exactly the enabled triggers whose
\* next-run instant is not after the current instant
C34_TimestampsAreUTC ==
  /\ \A i \in DOMAIN tsvc.rows :
       /\ tsvc.rows[i].nextRunAt.valid => tsvc.rows[i].nextRunAt.zone = UTC
       /\ tsvc.rows[i].updatedAt.zone = UTC
  /\ tsvc.nowStr.valid => tsvc.nowStr.zone = UTC
  /\ tsvc.call.op = "tick" => tsvc.due = DueByInstant

\* the second half alone: the string comparison agrees with the instants
DueQueryFollowsInstants == tsvc.call.op = "tick" => tsvc.due = DueByInstant

====
